---- MODULE Spec2Model ----
(***************************************************************************)
(* VideoAgent daily-brief pipeline: summarization with its response-repair *)
(* chain (app/summarize.py), index-preserving translation                  *)
(* (app/translate.py) and the run_once driver (app/main.py).               *)
(*                                                                         *)
(* Text is a sequence of tokens.  A token stands for a run of characters;  *)
(* CJKTokens are the tokens holding a character in U+4E00..U+9FFF.         *)
(* Python dicts are functions whose domain is the set of keys present.     *)
(***************************************************************************)
EXTENDS Integers, Sequences, FiniteSets, TLC

VARIABLES
  s_pc, s_cfg, s_topics, s_resp, s_result,      \* one call of summarize
  t_pc, t_cfg, t_bundle, t_resp, t_requests, t_out,   \* one call of translate_bundle
  pc, cfg, hist, all_headlines, selection_pool, selected_indices,
  all_selected_topics, bundle, chinese_bundle, files, llm_calls, reuse_entire_run,
  raised, video, already, enrich_log,
  o_pc, o_cfg, out_root, o_raised,              \* the output root after the day's artifacts
  e_pc, e_lockfile, locks,   \* the entrypoints that call run_once
  f_pc, f_cfg, f_fetched, all_topics,  \* one call of fetch_all_sources
  v_pc, v_cfg, v_captions, v_dir, v_spawned, v_out   \* the video of the day

svars == <<s_pc, s_cfg, s_topics, s_resp, s_result>>
tvars == <<t_pc, t_cfg, t_bundle, t_resp, t_requests, t_out>>
rvars == <<pc, cfg, hist, all_headlines, selection_pool, selected_indices,
           all_selected_topics, bundle, chinese_bundle, files, llm_calls,
           reuse_entire_run, raised, video, already, enrich_log>>
ovars == <<o_pc, o_cfg, out_root, o_raised>>
evars == <<e_pc, e_lockfile, locks>>
fvars == <<f_pc, f_cfg, f_fetched, all_topics>>
vvars == <<v_pc, v_cfg, v_captions, v_dir, v_spawned, v_out>>
vars == <<svars, tvars, rvars, ovars, evars, fvars, vvars>>

-----------------------------------------------------------------------------
(* Bounds of the model *)

MaxTopics == 2        \* topics handed to one summarize call
MaxTrTopics == 2      \* topics of a bundle handed to translate_bundle
MaxHeadlines == 3     \* headlines fetched in one run

-----------------------------------------------------------------------------
(* Python helpers *)

Get(d, k, default) == IF k \in DOMAIN d THEN d[k] ELSE default

Put(d, k, v) == [x \in (DOMAIN d) \cup {k} |-> IF x = k THEN v ELSE d[x]]

Take(s, n) == IF Len(s) <= n THEN s ELSE SubSeq(s, 1, n)

Min(a, b) == IF a <= b THEN a ELSE b

RECURSIVE Concat(_)
Concat(ss) == IF ss = <<>> THEN <<>> ELSE Head(ss) \o Concat(Tail(ss))

RECURSIVE Join(_, _)
Join(ss, sep) ==
  IF ss = <<>> THEN <<>>
  ELSE IF Len(ss) = 1 THEN ss[1]
  ELSE ss[1] \o sep \o Join(Tail(ss), sep)

RECURSIVE SelectIdx(_, _, _)
\* the indices i in lo..hi with keep[i], ascending
SelectIdx(keep, lo, hi) ==
  IF lo > hi THEN <<>>
  ELSE (IF keep[lo] THEN <<lo>> ELSE <<>>) \o SelectIdx(keep, lo + 1, hi)

\* f"{k}." : the number prefix of a narration entry or caption
NumTok(k) == <<"1.", "2.", "3.", "4.", "5.", "6.", "7.", "8.">>[k]
NumToks == {"1.", "2.", "3.", "4.", "5.", "6.", "7.", "8."}

-----------------------------------------------------------------------------
(* Topics (multi_source_fetch.Topic) *)

\* Topic.score is Optional[int]: None is NoScore, below every score a source reports
NoScore == -1

TopicEn == [title |-> <<"Alpha">>, url |-> "u1", score |-> 5,
            source |-> "Reddit r/ai", excerpt |-> <<"exA">>, content |-> <<>>,
            comments |-> <<>>]
TopicZh == [title |-> <<"zhBeta">>, url |-> "u2", score |-> 100,
            source |-> "China News", excerpt |-> <<>>, content |-> <<>>,
            comments |-> <<>>]
TopicNoUrl == [title |-> <<"Gamma">>, url |-> "", score |-> NoScore,
               source |-> "Hacker News", excerpt |-> <<>>, content |-> <<>>,
            comments |-> <<>>]
TopicSameTitle == [title |-> <<"Alpha">>, url |-> "u4", score |-> 0,
                   source |-> "Hacker News", excerpt |-> <<>>, content |-> <<>>,
            comments |-> <<>>]

\* a Chinese-source headline with an excerpt, as in test_chinese_summary.py
TopicZhExcerpt == [title |-> <<"zhBeta">>, url |-> "u5", score |-> 100,
                   source |-> "China News", excerpt |-> <<"zhSum">>, content |-> <<>>,
            comments |-> <<>>]

SummarizeTopics == {TopicEn, TopicZh, TopicNoUrl, TopicZhExcerpt}

\* tokens holding a character in U+4E00..U+9FFF; "ZH_PERIOD" (U+3002) is not one
CJKTokens == {"zhBeta", "zhSum", "zhCap", "ZH_ARTICLE", "ZH"}

SeqsUpTo(S, n) == UNION {[1..k -> S] : k \in 0..n}

-----------------------------------------------------------------------------
(* summarize.py: the deterministic local generator _dummy *)

ContentPreviewLen == 300
ExcerptPreviewLen == 200
BilingualPreviewLen == 150
CaptionTitleLen == 50
seg == 8

\* 'China' in tp.source or 'chinanews' in tp.source.lower()
IsChineseSource(source) == source \in {"China News", "chinanews"}

content_preview(tp) ==
  IF tp.content # <<>> THEN Take(tp.content, ContentPreviewLen)
  ELSE IF tp.excerpt # <<>> THEN Take(tp.excerpt, ExcerptPreviewLen)
  ELSE <<>>

\* the English framing for every source
EnglishSummary(tp) ==
  LET preview == content_preview(tp) IN
  IF preview # <<>>
  THEN tp.title \o <<".", "Article preview:">> \o preview \o <<"...">>
  ELSE tp.title \o <<".">>

DummySummary(tp) ==
  LET preview == content_preview(tp) IN
  IF IsChineseSource(tp.source)
  THEN IF preview # <<>>
       THEN tp.title \o <<"ZH_PERIOD", "ZH_ARTICLE">> \o preview \o <<"...">>
       ELSE tp.title \o <<"ZH_PERIOD">>
  ELSE IF preview # <<>>
       THEN tp.title \o <<".", "Article preview:">> \o preview \o <<"...">>
       ELSE tp.title \o <<".">>

DummyEntry(tp, include_chinese) ==
  LET preview == content_preview(tp)
      summary == DummySummary(tp)
      entry == [title |-> tp.title, source |-> tp.source, url |-> tp.url,
                key_points |-> <<"Based on article content">>]
  IN IF include_chinese
     THEN IF IsChineseSource(tp.source)
          THEN Put(Put(entry, "summary_zh", summary), "summary_en",
                   IF preview = <<>> THEN tp.title
                   ELSE tp.title \o <<".">> \o Take(preview, BilingualPreviewLen) \o <<"...">>)
          ELSE Put(Put(entry, "summary_en", summary), "summary_zh", summary)
     ELSE Put(entry, "summary", summary)

RECURSIVE DummyLoop(_, _, _, _, _, _, _)
\* the body of `for tp in topics`, carrying t and topic_counter
DummyLoop(topics, include_chinese, t, topic_counter, out_topics, narration_parts, captions) ==
  IF topics = <<>>
  THEN [out_topics |-> out_topics, narration_parts |-> narration_parts, captions |-> captions]
  ELSE LET tp == Head(topics) IN
       DummyLoop(Tail(topics), include_chinese, t + seg, topic_counter + 1,
         Append(out_topics, DummyEntry(tp, include_chinese)),
         Append(narration_parts,
                <<NumTok(topic_counter)>> \o tp.title \o <<":">> \o DummySummary(tp) \o <<"NL">>),
         Append(captions,
                [start_s |-> t, end_s |-> t + seg,
                 text |-> <<NumTok(topic_counter)>> \o Take(tp.title, CaptionTitleLen) \o <<"...">>]))

Hashtags == <<"#AI", "#TechNews", "#MachineLearning", "#DailyBrief">>

\* every caption on the first segment: t is never advanced
DummyWithoutClock(topics, include_chinese) ==
  LET r == DummyLoop(topics, include_chinese, 0, 1, <<>>, <<>>, <<>>) IN
  [topics |-> r.out_topics, narration |-> Concat(r.narration_parts),
   captions |-> [i \in 1..Len(r.captions) |->
                   [r.captions[i] EXCEPT !.start_s = 0, !.end_s = seg]],
   hashtags |-> Hashtags]

_dummy(topics, include_chinese) ==
  LET r == DummyLoop(topics, include_chinese, 0, 1, <<>>, <<>>, <<>>)
      out == [topics |-> r.out_topics, narration |-> Concat(r.narration_parts),
              captions |-> r.captions, hashtags |-> Hashtags]
      narration_zh ==
        IF \E i \in 1..Len(r.out_topics) : "summary_zh" \in DOMAIN r.out_topics[i]
        THEN Concat([i \in 1..Len(topics) |->
               <<NumTok(i)>> \o topics[i].title \o <<":">>
               \o Get(r.out_topics[i], "summary_zh", Get(r.out_topics[i], "summary", <<>>))
               \o <<"NL">>])
        ELSE <<>>
  IN IF include_chinese THEN Put(out, "narration_zh", narration_zh) ELSE out

-----------------------------------------------------------------------------
(* summarize.py: raw LLM text and the repair chain                         *)
(*                                                                         *)
(* A raw response is a sequence of tokens:                                 *)
(*   "W"      whitespace            "FENCE"  the three backticks           *)
(*   "json"   the letters json      "X"      an ASCII character that is    *)
(*                                           no JSON where it stands       *)
(*   "M"      Latin-1 characters that are the bytes of one UTF-8 character *)
(*   "H"      a Latin-1 character above U+007F that is no UTF-8 sequence   *)
(*   "U"      a character above U+00FF                                     *)
(*   "{" "}"  a lone brace          "OBJ"    a well-formed JSON object     *)
(*   "BADOBJ" text from '{' to '}' that is not JSON                        *)
(*   "TRUNC"  an object cut off before its closing brace                   *)
(*   "LIST"   a well-formed JSON array without braces                      *)
(* The value the OBJ token encodes travels beside the tokens.              *)
(***************************************************************************)

EmptyDict == [k \in {} |-> TRUE]

HasOpenBrace == {"{", "OBJ", "BADOBJ", "TRUNC"}
HasCloseBrace == {"}", "OBJ", "BADOBJ"}

RECURSIVE lstrip(_)
lstrip(toks) == IF toks # <<>> /\ Head(toks) = "W" THEN lstrip(Tail(toks)) ELSE toks

RECURSIVE rstrip(_)
rstrip(toks) ==
  IF toks # <<>> /\ toks[Len(toks)] = "W" THEN rstrip(SubSeq(toks, 1, Len(toks) - 1)) ELSE toks

strip(toks) == rstrip(lstrip(toks))

startswith(toks, prefix) ==
  Len(toks) >= Len(prefix) /\ SubSeq(toks, 1, Len(prefix)) = prefix

endswith(toks, suffix) ==
  Len(toks) >= Len(suffix) /\ SubSeq(toks, Len(toks) - Len(suffix) + 1, Len(toks)) = suffix

Drop(toks, n) == SubSeq(toks, n + 1, Len(toks))

NoParse == [ok |-> FALSE, pytype |-> "none", value |-> EmptyDict, step |-> "none"]

\* json.loads: whitespace between JSON tokens is insignificant, anything else must be
\* exactly one JSON value
json_loads(toks, val) ==
  LET s == SelectSeq(toks, LAMBDA x : x # "W") IN
  IF s = <<"OBJ">> THEN [ok |-> TRUE, pytype |-> "dict", value |-> val, step |-> "direct"]
  ELSE IF s = <<"{", "}">>
       THEN [ok |-> TRUE, pytype |-> "dict", value |-> EmptyDict, step |-> "direct"]
  ELSE IF s = <<"LIST">>
       THEN [ok |-> TRUE, pytype |-> "list", value |-> EmptyDict, step |-> "direct"]
  ELSE NoParse

\* lines 455-461 (and 148-154, 339-345): remove markdown code fences
strip_fences(content) ==
  LET c1 == IF startswith(content, <<"FENCE", "json">>) THEN Drop(content, 2) ELSE content
      c2 == IF startswith(c1, <<"FENCE">>) THEN Drop(c1, 1) ELSE c1
      c3 == IF endswith(c2, <<"FENCE">>) THEN SubSeq(c2, 1, Len(c2) - 1) ELSE c2
  IN strip(c3)

\* raw.encode('latin-1').decode('utf-8'): [ok, toks]
latin1_to_utf8(raw) ==
  IF \E i \in 1..Len(raw) : raw[i] = "U" THEN [ok |-> FALSE, toks |-> <<>>]
  ELSE IF \E i \in 1..Len(raw) : raw[i] = "H" THEN [ok |-> FALSE, toks |-> <<>>]
  ELSE [ok |-> TRUE, toks |-> [i \in 1..Len(raw) |-> IF raw[i] = "M" THEN "U" ELSE raw[i]]]

\* raw.encode('utf-8', errors='replace').decode('latin-1'): never raises
utf8_to_latin1(raw) ==
  [i \in 1..Len(raw) |-> IF raw[i] \in {"U", "H"} THEN "M" ELSE raw[i]]

\* raw.find('{') and raw.rfind('}') as token positions, 0 for -1
find_open(raw) ==
  IF \E i \in 1..Len(raw) : raw[i] \in HasOpenBrace
  THEN CHOOSE i \in 1..Len(raw) :
         raw[i] \in HasOpenBrace /\ \A j \in 1..(i - 1) : raw[j] \notin HasOpenBrace
  ELSE 0

rfind_close(raw) ==
  IF \E i \in 1..Len(raw) : raw[i] \in HasCloseBrace
  THEN CHOOSE i \in 1..Len(raw) :
         raw[i] \in HasCloseBrace /\ \A j \in (i + 1)..Len(raw) : raw[j] \notin HasCloseBrace
  ELSE 0

\* start != -1 and end != -1 and end > start: then json.loads(raw[start:end+1])
extract_substring(raw, val) ==
  LET start == find_open(raw)
      end == rfind_close(raw)
  IN IF start # 0 /\ end # 0 /\ (end > start \/ (end = start /\ raw[start] \in {"OBJ", "BADOBJ"}))
     THEN json_loads(SubSeq(raw, start, end), val)
     ELSE NoParse

With(r, step) == IF r.ok THEN [r EXCEPT !.step = step] ELSE r

_parse_with_repair(raw, val) ==
  LET direct == json_loads(raw, val)
      l2u == latin1_to_utf8(raw)
      viaL2U == IF l2u.ok THEN json_loads(l2u.toks, val) ELSE NoParse
      viaU2L == json_loads(utf8_to_latin1(raw), val)
      viaSub == extract_substring(raw, val)
  IN IF direct.ok THEN direct
     ELSE IF viaL2U.ok THEN With(viaL2U, "latin1")
     ELSE IF viaU2L.ok THEN With(viaU2L, "utf8")
     ELSE IF viaSub.ok THEN With(viaSub, "substring")
     ELSE NoParse

_parse_openai_content(raw_content, val) ==
  LET direct == json_loads(raw_content, val)
      l2u == latin1_to_utf8(raw_content)
      viaL2U == IF l2u.ok THEN json_loads(l2u.toks, val) ELSE NoParse
      viaSub == extract_substring(raw_content, val)
  IN IF direct.ok THEN direct
     ELSE IF viaL2U.ok THEN With(viaL2U, "latin1")
     ELSE IF viaSub.ok THEN With(viaSub, "substring")
     ELSE NoParse

-----------------------------------------------------------------------------
(* What the model answers: the JSON value behind the OBJ token *)

\* a JSON null where a topic object is expected
NullEntry == [nondict |-> TRUE]
IsDictEntry(e) == "nondict" \notin DOMAIN e

LLMEntry(tp) == [title |-> tp.title, source |-> tp.source, summary |-> <<"llmSum">>,
                 key_points |-> <<"kp">>]

LLMEntries(topics) == [i \in 1..Len(topics) |-> LLMEntry(topics[i])]

LLMNarration(entries) ==
  Concat([i \in 1..Len(entries) |->
            <<NumTok(i)>> \o Get(entries[i], "title", <<>>) \o <<":">>
            \o Get(entries[i], "summary", <<>>) \o <<"NL">>])

LLMCaptions(entries) ==
  [i \in 1..Len(entries) |->
     [start_s |-> 5 * (i - 1), end_s |-> 5 * i, text |-> Get(entries[i], "title", <<>>)]]

LLMBundle(entries) ==
  [topics |-> entries, narration |-> LLMNarration(entries),
   captions |-> LLMCaptions(entries), hashtags |-> <<"#AI">>]

Reverse(q) == [i \in 1..Len(q) |-> q[Len(q) + 1 - i]]

ExtraEntry == [title |-> <<"Extra">>, source |-> "Reddit r/ai", summary |-> <<"llmSum">>,
               key_points |-> <<"kp">>]

LLMKinds == {"faithful", "with_url", "fewer", "more", "swapped", "no_topics",
             "null_entry", "bilingual"}

LLMValue(kind, topics) ==
  LET es == LLMEntries(topics) IN
  CASE kind = "faithful" -> LLMBundle(es)
    [] kind = "with_url" -> LLMBundle([i \in 1..Len(es) |-> Put(es[i], "url", "llmUrl")])
    [] kind = "fewer" -> LLMBundle(IF es = <<>> THEN es ELSE SubSeq(es, 1, Len(es) - 1))
    [] kind = "more" -> LLMBundle(Append(es, ExtraEntry))
    [] kind = "swapped" -> LLMBundle(Reverse(es))
    [] kind = "no_topics" -> [narration |-> <<"1.", "llmSum">>, hashtags |-> <<"#AI">>]
    [] kind = "null_entry" ->
         [topics |-> <<NullEntry>> \o es, narration |-> LLMNarration(es),
          captions |-> LLMCaptions(es), hashtags |-> <<"#AI">>]
    [] kind = "bilingual" ->
         LLMBundle([i \in 1..Len(es) |->
           [title |-> es[i].title, source |-> es[i].source,
            summary_en |-> <<"llmSum">>, summary_zh |-> <<"zhSum">>]])

-----------------------------------------------------------------------------
(* summarize.py: summarize *)

\* lines 513-517: parsed['topics'][i].get('url') raises on an entry that is no dict
BackfillRaises(ptopics, topics) ==
  \E i \in 1..Min(Len(ptopics), Len(topics)) : ~IsDictEntry(ptopics[i])

Backfill(ptopics, topics) ==
  [i \in 1..Len(ptopics) |->
     IF i <= Len(topics) /\ Get(ptopics[i], "url", "") = ""
     THEN Put(ptopics[i], "url", topics[i].url)
     ELSE ptopics[i]]

\* lines 519-524: 'summary' in t raises on null
NormalizeRaises(ptopics) == \E i \in 1..Len(ptopics) : ~IsDictEntry(ptopics[i])

Normalize(ptopics) ==
  [i \in 1..Len(ptopics) |->
     LET t == ptopics[i] IN
     IF "summary" \in DOMAIN t /\ "summary_en" \notin DOMAIN t /\ "summary_zh" \notin DOMAIN t
     THEN Put(Put(t, "summary_en", t["summary"]), "summary_zh", t["summary"])
     ELSE t]

Returned(b, via, step) ==
  [status |-> "returned", pytype |-> "dict", bundle |-> b, via |-> via, step |-> step,
   error |-> "none"]

Raised(error) ==
  [status |-> "raised", pytype |-> "none", bundle |-> EmptyDict, via |-> "none",
   step |-> "none", error |-> error]

\* lines 508-525 and 590-599: what follows the repair chain
AfterParse(parsed, topics, include_chinese, normalize) ==
  IF parsed.pytype # "dict" \/ "topics" \notin DOMAIN parsed.value
  THEN [Returned(parsed.value, "parsed", parsed.step) EXCEPT !.pytype = parsed.pytype]
  ELSE IF BackfillRaises(parsed.value["topics"], topics) THEN Raised("AttributeError")
  ELSE LET filled == Backfill(parsed.value["topics"], topics) IN
       IF normalize /\ include_chinese
       THEN IF NormalizeRaises(filled) THEN Raised("TypeError")
            ELSE Returned(Put(parsed.value, "topics", Normalize(filled)), "parsed", parsed.step)
       ELSE Returned(Put(parsed.value, "topics", filled), "parsed", parsed.step)

\* lines 289-525, with gemini.enable_tools off (the hybrid planning of lines 308-402
\* only adds article text to the topics and swallows its own failures)
SummarizeGemini(c, topics, include_chinese, resp) ==
  IF ~c.api_key_set THEN Raised("RuntimeError")
  ELSE IF ~resp.ok THEN Returned(_dummy(topics, FALSE), "request_failed", "none")
  ELSE LET content == strip_fences(strip(resp.toks))
           parsed == _parse_with_repair(content, LLMValue(resp.kind, topics))
       IN IF ~parsed.ok
          THEN Returned(_dummy(topics, include_chinese), "parse_fallback", "none")
          ELSE AfterParse(parsed, topics, include_chinese, TRUE)

\* `sanitized` is assigned at line 298, inside the gemini branch only
sanitized_bound(backend) == backend = "gemini"

\* lines 527-599
SummarizeOpenAI(c, topics, include_chinese, resp) ==
  IF ~sanitized_bound(c.backend) THEN Raised("UnboundLocalError")
  ELSE IF ~c.api_key_set THEN Raised("RuntimeError")
  ELSE IF ~resp.ok THEN Raised("HTTPError")
  ELSE LET parsed == _parse_openai_content(resp.toks, LLMValue(resp.kind, topics)) IN
       IF ~parsed.ok
       THEN Returned(_dummy(topics, FALSE), "parse_fallback", "none")
       ELSE AfterParse(parsed, topics, include_chinese, FALSE)

\* lines 263-599
summarize(c, topics, include_chinese, resp) ==
  IF c.backend = "local_dummy"
  THEN Returned(_dummy(topics, include_chinese), "local_dummy", "none")
  ELSE IF c.backend = "gemini" THEN SummarizeGemini(c, topics, include_chinese, resp)
  ELSE SummarizeOpenAI(c, topics, include_chinese, resp)

-----------------------------------------------------------------------------
(* Values of the variables of a component that is not running *)

NoResp == [ok |-> FALSE, toks |-> <<>>, kind |-> "none"]
NoResult == [status |-> "none", pytype |-> "none", bundle |-> EmptyDict, via |-> "none",
             step |-> "none", error |-> "none"]
NoCfg == [backend |-> "none"]

NoHistory == [urls |-> {}, titles |-> {}]

SIdle ==
  /\ s_pc = "idle" /\ s_cfg = NoCfg /\ s_topics = <<>> /\ s_resp = NoResp
  /\ s_result = NoResult

TIdle ==
  /\ t_pc = "idle" /\ t_cfg = NoCfg /\ t_bundle = EmptyDict /\ t_resp = EmptyDict
  /\ t_requests = <<>> /\ t_out = EmptyDict

RIdle ==
  /\ pc = "idle" /\ cfg = NoCfg /\ hist = {} /\ all_headlines = <<>>
  /\ selection_pool = <<>> /\ selected_indices = <<>> /\ all_selected_topics = <<>>
  /\ bundle = NoResult /\ chinese_bundle = NoResult /\ files = EmptyDict
  /\ llm_calls = <<>> /\ reuse_entire_run = FALSE /\ raised = "none"
  /\ video = "pending" /\ already = NoHistory /\ enrich_log = <<>>

OIdle == o_pc = "idle" /\ o_cfg = NoCfg /\ out_root = {} /\ o_raised = "none"

EIdle == e_pc = EmptyDict /\ e_lockfile = EmptyDict /\ locks = EmptyDict

FIdle == f_pc = "idle" /\ f_cfg = NoCfg /\ f_fetched = EmptyDict /\ all_topics = EmptyDict

VIdle ==
  /\ v_pc = "idle" /\ v_cfg = NoCfg /\ v_captions = <<>> /\ v_dir = EmptyDict
  /\ v_spawned = <<>> /\ v_out = "none"

-----------------------------------------------------------------------------
(* One call of summarize(cfg, topics, include_chinese) *)

Backends == {"local_dummy", "gemini", "openai_compatible"}
LLMBackends == {"gemini", "openai_compatible"}

RawPre == {<<>>, <<"W">>, <<"FENCE", "json">>, <<"FENCE", "json", "W">>, <<"FENCE">>,
           <<"X">>, <<"M">>, <<"U">>, <<"H">>, <<"{">>}
RawBody == {<<"OBJ">>, <<"BADOBJ">>, <<"TRUNC">>, <<"LIST">>, <<>>}
RawPost == {<<>>, <<"W">>, <<"FENCE">>, <<"W", "FENCE">>, <<"FENCE", "X">>, <<"X">>, <<"}">>}

RawTexts == {pre \o body \o post : pre \in RawPre, body \in RawBody, post \in RawPost}

HasObj(toks) == \E i \in 1..Len(toks) : toks[i] = "OBJ"

\* the responses an LLM request can come back with
Responses ==
  {[ok |-> TRUE, toks |-> toks, kind |-> kind] :
     toks \in {r \in RawTexts : HasObj(r)}, kind \in LLMKinds}
  \cup {[ok |-> TRUE, toks |-> toks, kind |-> "none"] : toks \in {r \in RawTexts : ~HasObj(r)}}

SInit ==
  /\ s_pc = "call"
  /\ s_cfg \in [backend : Backends, api_key_set : BOOLEAN, include_chinese : BOOLEAN]
  /\ s_topics \in SeqsUpTo(SummarizeTopics, MaxTopics)
  /\ s_resp = NoResp
  /\ s_result = NoResult
  /\ TIdle /\ RIdle /\ OIdle /\ EIdle /\ FIdle /\ VIdle

\* backend local_dummy, or a call that raises before any request is answered
SummarizeNoRequest ==
  /\ s_pc = "call"
  /\ \/ s_cfg.backend = "local_dummy"
     \/ s_cfg.backend = "gemini" /\ ~s_cfg.api_key_set
     \/ s_cfg.backend = "openai_compatible"
  /\ s_result' = summarize(s_cfg, s_topics, s_cfg.include_chinese, NoResp)
  /\ s_pc' = "done"
  /\ UNCHANGED <<s_cfg, s_topics, s_resp, tvars, rvars, ovars, evars, fvars, vvars>>

\* the streaming request raises
SummarizeRequestFailed ==
  /\ s_pc = "call"
  /\ s_cfg.backend = "gemini" /\ s_cfg.api_key_set
  /\ s_resp' = [ok |-> FALSE, toks |-> <<>>, kind |-> "none"]
  /\ s_result' = summarize(s_cfg, s_topics, s_cfg.include_chinese, s_resp')
  /\ s_pc' = "done"
  /\ UNCHANGED <<s_cfg, s_topics, tvars, rvars, ovars, evars, fvars, vvars>>

\* the model answers with some text
SummarizeResponse ==
  /\ s_pc = "call"
  /\ s_cfg.backend = "gemini" /\ s_cfg.api_key_set
  /\ \E resp \in Responses :
       /\ s_resp' = resp
       /\ s_result' = summarize(s_cfg, s_topics, s_cfg.include_chinese, resp)
  /\ s_pc' = "done"
  /\ UNCHANGED <<s_cfg, s_topics, tvars, rvars, ovars, evars, fvars, vvars>>

SNext == SummarizeNoRequest \/ SummarizeRequestFailed \/ SummarizeResponse

SpecSummarize == SInit /\ [][SNext]_vars

-----------------------------------------------------------------------------
(* Claims about summarize *)

SDoneLLM == s_pc = "done" /\ s_cfg.backend \in LLMBackends /\ s_cfg.api_key_set

\* C3: summarize never fails on account of the LLM: with either LLM backend, for a failed
\* request and for every response text, it returns a bundle, and when no repair step
\* parses the response that bundle is the deterministic generator's for the same topics.
C3_SummarizeNeverFails ==
  SDoneLLM =>
    /\ s_result.status = "returned"
    /\ (s_result.via \in {"parse_fallback", "request_failed"} =>
          s_result.bundle = _dummy(s_topics, s_cfg.include_chinese))

\* the chain as the specification orders it: direct parse, fence stripping, re-decoding,
\* substring extraction; the first result that parses is the result
ClaimedChain(raw, val) ==
  LET direct == json_loads(raw, val)
      unfenced == strip_fences(raw)
      fenced == json_loads(unfenced, val)
      l2u == latin1_to_utf8(unfenced)
      redecoded == IF l2u.ok /\ json_loads(l2u.toks, val).ok THEN json_loads(l2u.toks, val)
                   ELSE json_loads(utf8_to_latin1(unfenced), val)
      sub == extract_substring(unfenced, val)
  IN IF direct.ok THEN With(direct, "direct")
     ELSE IF fenced.ok THEN With(fenced, "fence")
     ELSE IF redecoded.ok THEN With(redecoded, "redecode")
     ELSE IF sub.ok THEN With(sub, "substring")
     ELSE NoParse

FencedObjectWithTrailingChar == <<"FENCE", "json", "OBJ", "FENCE", "X">>

\* C4: on both LLM backends the repair chain runs direct parse, fence stripping, re-decoding
\* and substring extraction in that order, returns the first result that parses, and falls
\* back to the deterministic generator only when all four fail; a fenced object followed by
\* one invalid character is recovered by the substring step.
C4_RepairChainOrder ==
  SDoneLLM /\ (s_cfg.backend = "gemini" => s_resp.ok) =>
    LET expect == ClaimedChain(s_resp.toks, LLMValue(s_resp.kind, s_topics)) IN
    /\ s_resp.ok
    /\ (s_result.via = "parse_fallback" <=> ~expect.ok)
    /\ (s_result.status = "returned" /\ expect.ok => s_result.via = "parsed")
    /\ (expect.ok /\ s_result.status = "returned" =>
          /\ s_result.pytype = expect.pytype
          /\ DOMAIN s_result.bundle = DOMAIN expect.value)
    /\ (s_resp.toks = FencedObjectWithTrailingChar /\ s_result.status = "returned" =>
          s_result.step = "substring")

\* the same statement for the gemini backend alone
C4_GeminiChain ==
  SDoneLLM /\ s_cfg.backend = "gemini" /\ s_resp.ok =>
    LET expect == ClaimedChain(s_resp.toks, LLMValue(s_resp.kind, s_topics)) IN
    /\ (s_result.via = "parse_fallback" <=> ~expect.ok)
    /\ (expect.ok /\ s_result.status = "returned" =>
          /\ s_result.via = "parsed"
          /\ s_result.pytype = expect.pytype
          /\ DOMAIN s_result.bundle = DOMAIN expect.value)
    /\ (s_resp.toks = FencedObjectWithTrailingChar /\ s_result.status = "returned" =>
          s_result.step = "substring")

ReturnedTopics == Get(s_result.bundle, "topics", <<>>)

\* the response kinds whose topics are objects with a `summary` or with both bilingual keys
SummaryKinds == {"faithful", "with_url", "fewer", "swapped", "bilingual"}

\* C19: with include_chinese every topic of the bundle summarize returns carries both
\* summary_en and summary_zh: for a response with `summary` only, on either LLM backend,
\* and in the deterministic fallback after a failed request or a failed parse.
C19_BilingualTopics ==
  /\ s_pc = "done" /\ s_cfg.include_chinese
  /\ s_result.status = "returned" /\ s_result.pytype = "dict"
  /\ s_result.via = "parsed" => s_resp.kind \in SummaryKinds
  => \A i \in 1..Len(ReturnedTopics) :
       {"summary_en", "summary_zh"} \subseteq DOMAIN ReturnedTopics[i]

\* the same statement without the path of the failed request
C19_ExceptFailedRequest ==
  /\ s_pc = "done" /\ s_cfg.include_chinese
  /\ s_result.status = "returned" /\ s_result.pytype = "dict"
  /\ s_result.via = "parsed" => s_resp.kind \in SummaryKinds
  /\ s_result.via # "request_failed"
  => \A i \in 1..Len(ReturnedTopics) :
       {"summary_en", "summary_zh"} \subseteq DOMAIN ReturnedTopics[i]

\* the topics of the response as the model sent them
ResponseTopics ==
  IF s_resp.kind \in LLMKinds THEN Get(LLMValue(s_resp.kind, s_topics), "topics", <<>>)
  ELSE <<>>

\* C20: summarize returns for every shape of the parsed response, and in a parsed bundle
\* topic i, for i within the input, carries the url of input topic i when the response
\* gave it none or an empty one, and the url of the response otherwise.
C20_UrlBackfill ==
  SDoneLLM /\ s_resp.ok =>
    /\ s_result.status = "returned"
    /\ s_result.via = "parsed" /\ s_result.pytype = "dict" =>
         \A i \in 1..Min(Len(ReturnedTopics), Len(s_topics)) :
           Get(ReturnedTopics[i], "url", "") =
             IF Get(ResponseTopics[i], "url", "") = "" THEN s_topics[i].url
             ELSE ResponseTopics[i].url

\* the same statement for the responses whose topics are all objects
C20_ObjectTopics ==
  SDoneLLM /\ s_resp.ok /\ s_cfg.backend = "gemini" /\ s_resp.kind # "null_entry" =>
    /\ s_result.status = "returned"
    /\ s_result.via = "parsed" /\ s_result.pytype = "dict" =>
         /\ Len(ReturnedTopics) = Len(ResponseTopics)
         /\ \A i \in 1..Min(Len(ReturnedTopics), Len(s_topics)) :
              Get(ReturnedTopics[i], "url", "") =
                IF Get(ResponseTopics[i], "url", "") = "" THEN s_topics[i].url
                ELSE ResponseTopics[i].url

\* summarize returned what the deterministic generator built for backend local_dummy
DummyReturned ==
  s_pc = "done" /\ s_result.status = "returned" /\ s_result.via = "local_dummy"

\* C21: the deterministic generator emits exactly one caption per input topic, caption i
\* (0-based) running from 8*i to 8*(i+1) seconds, so each caption has start_s < end_s,
\* start_s is strictly increasing and no two captions overlap.
C21_CaptionClock ==
  DummyReturned =>
    LET captions == s_result.bundle.captions IN
    /\ Len(captions) = Len(s_topics)
    /\ \A i \in 1..Len(captions) :
         /\ captions[i].start_s = seg * (i - 1)
         /\ captions[i].end_s = seg * i
         /\ captions[i].start_s < captions[i].end_s
         /\ i < Len(captions) =>
              /\ captions[i].start_s < captions[i + 1].start_s
              /\ captions[i].end_s <= captions[i + 1].start_s

C21_Witness == DummyReturned /\ Len(s_topics) >= 2

RECURSIVE SplitEntries(_, _)
\* the narration cut after each blank line ("NL"), the blank line dropped
SplitEntries(narration, entry) ==
  IF narration = <<>> THEN (IF entry = <<>> THEN <<>> ELSE <<entry>>)
  ELSE IF Head(narration) = "NL" THEN <<entry>> \o SplitEntries(Tail(narration), <<>>)
  ELSE SplitEntries(Tail(narration), Append(entry, Head(narration)))

Contains(toks, tok) == \E i \in 1..Len(toks) : toks[i] = tok

\* C22: for any list of N topics the deterministic generator's narration has N entries
\* numbered 1..N in input order, entry k holding the k-th topic's title verbatim, and the
\* entry of a topic from a Chinese source is framed with Chinese punctuation, without the
\* English sentence framing ("Article preview:", a Latin full stop).
C22_NumberedNarration ==
  DummyReturned =>
    LET entries == SplitEntries(s_result.bundle.narration, <<>>) IN
    /\ Len(entries) = Len(s_topics)
    /\ \A k \in 1..Len(entries) :
         LET title == s_topics[k].title IN
         /\ Len(entries[k]) >= 1 + Len(title)
         /\ entries[k][1] = NumTok(k)
         /\ SubSeq(entries[k], 2, 1 + Len(title)) = title
         /\ IsChineseSource(s_topics[k].source) =>
              /\ Contains(entries[k], "ZH_PERIOD")
              /\ ~Contains(entries[k], "Article preview:")
              /\ ~Contains(entries[k], ".")

C22_Witness ==
  /\ DummyReturned /\ Len(s_topics) = MaxTopics
  /\ s_topics[1] = TopicEn /\ s_topics[MaxTopics] = TopicZhExcerpt
  /\ Contains(s_result.bundle.narration, "ZH_ARTICLE")

-----------------------------------------------------------------------------
(* translate.py *)

\* lines 101-107: any character in U+4E00..U+9FFF
is_chinese_text(text) == \E i \in 1..Len(text) : text[i] \in CJKTokens

\* the text a translation request that succeeds comes back with
Tr(text) == IF text = <<>> THEN <<>> ELSE <<"ZH">> \o text

\* an index map that counts the skipped topics too
RECURSIVE index_map_by_position(_, _)
index_map_by_position(topics, sent) ==
  IF topics = <<>> THEN <<>>
  ELSE LET t == Head(topics)
           skip == is_chinese_text(Get(t, "summary", <<>>))
                   \/ is_chinese_text(Get(t, "title", <<>>))
       IN (IF skip THEN <<0>> ELSE <<sent + 1>>)
          \o index_map_by_position(Tail(topics), sent + 1)

\* lines 121-131: payload index (from 1) of each topic, 0 for None
RECURSIVE topic_index_map(_, _)
topic_index_map(topics, sent) ==
  IF topics = <<>> THEN <<>>
  ELSE LET t == Head(topics)
           skip == is_chinese_text(Get(t, "summary", <<>>))
                   \/ is_chinese_text(Get(t, "title", <<>>))
       IN IF skip THEN <<0>> \o topic_index_map(Tail(topics), sent)
          ELSE <<sent + 1>> \o topic_index_map(Tail(topics), sent + 1)

payload_topics(topics) ==
  LET m == topic_index_map(topics, 0)
      idx == SelectIdx([i \in 1..Len(topics) |-> m[i] # 0], 1, Len(topics))
  IN [j \in 1..Len(idx) |->
        [title |-> Get(topics[idx[j]], "title", <<>>),
         summary |-> Get(topics[idx[j]], "summary", <<>>)]]

\* lines 134-139
english_narration_parts(topics) ==
  LET m == topic_index_map(topics, 0)
      idx == SelectIdx([i \in 1..Len(topics) |-> m[i] # 0], 1, Len(topics))
  IN [j \in 1..Len(idx) |->
        <<NumTok(idx[j])>> \o Get(topics[idx[j]], "title", <<>>) \o <<":">>
        \o Get(topics[idx[j]], "summary", <<>>)]

\* lines 141-149
RECURSIVE caption_index_map(_, _)
caption_index_map(captions, sent) ==
  IF captions = <<>> THEN <<>>
  ELSE IF is_chinese_text(Get(Head(captions), "text", <<>>))
       THEN <<0>> \o caption_index_map(Tail(captions), sent)
       ELSE <<sent + 1>> \o caption_index_map(Tail(captions), sent + 1)

payload_captions(captions) ==
  LET m == caption_index_map(captions, 0)
      idx == SelectIdx([i \in 1..Len(captions) |-> m[i] # 0], 1, Len(captions))
  IN [j \in 1..Len(idx) |-> Get(captions[idx[j]], "text", <<>>)]

\* a translate_bundle without the early return of line 152
AlwaysSomethingToTranslate(parts, ptopics, pcaptions) == FALSE

\* line 152
NothingToTranslate(parts, ptopics, pcaptions) ==
  parts = <<>> /\ ptopics = <<>> /\ pcaptions = <<>>

\* lines 155-159
Payload(b) ==
  [narration |-> Join(english_narration_parts(Get(b, "topics", <<>>)), <<"NL">>),
   topics |-> payload_topics(Get(b, "topics", <<>>)),
   captions |-> payload_captions(Get(b, "captions", <<>>))]

\* the JSON object a batched answer encodes: the translation of the payload, cut to the
\* first nt topics and nc captions
TranslatedObj(payload, resp) ==
  LET base == [topics |-> [j \in 1..Min(resp.nt, Len(payload.topics)) |->
                             IF resp.items_are_dicts
                             THEN [title |-> Tr(payload.topics[j].title),
                                   summary |-> Tr(payload.topics[j].summary)]
                             ELSE NullEntry],
               captions |-> [j \in 1..Min(resp.nc, Len(payload.captions)) |->
                               Tr(payload.captions[j])]]
  IN IF resp.has_narration THEN Put(base, "narration", Tr(payload.narration)) ELSE base

\* lines 213-238 and 279-302: do the loops raise?
MapBackRaises(b, translated_obj) ==
  LET m == topic_index_map(Get(b, "topics", <<>>), 0)
      tt == Get(translated_obj, "topics", <<>>)
  IN \E i \in 1..Len(m) : m[i] # 0 /\ m[i] <= Len(tt) /\ ~IsDictEntry(tt[m[i]])

MapTopic(t, mapped, translated_topics) ==
  IF mapped # 0 /\ mapped <= Len(translated_topics)
  THEN LET tr == translated_topics[mapped]
           withSummary == Put(t, "summary", Get(tr, "summary", Get(t, "summary", <<>>)))
       IN Put(withSummary, "title", Get(tr, "title", Get(withSummary, "title", <<>>)))
  ELSE t

MapCaption(c, mapped_c, translated_caps) ==
  Put(c, "text", IF mapped_c # 0 /\ mapped_c <= Len(translated_caps)
                 THEN translated_caps[mapped_c]
                 ELSE Get(c, "text", <<>>))

MapBack(b, translated_obj) ==
  LET topics == Get(b, "topics", <<>>)
      captions == Get(b, "captions", <<>>)
      tmap == topic_index_map(topics, 0)
      cmap == caption_index_map(captions, 0)
      tt == Get(translated_obj, "topics", <<>>)
      tc == Get(translated_obj, "captions", <<>>)
      out1 == Put(b, "narration",
                  Get(translated_obj, "narration", Get(b, "narration", <<>>)))
      out2 == Put(out1, "topics",
                  [i \in 1..Len(topics) |-> MapTopic(topics[i], tmap[i], tt)])
  IN Put(out2, "captions", [i \in 1..Len(captions) |-> MapCaption(captions[i], cmap[i], tc)])

Field(kind, idx) == [kind |-> kind, idx |-> idx]

\* a translate_text that lets the failure of its request out
translate_text_unguarded(c, text, fails) ==
  IF text = <<>> THEN [raised |-> FALSE, text |-> <<>>, sent |-> FALSE]
  ELSE IF c.backend = "local_dummy" THEN [raised |-> FALSE, text |-> text, sent |-> FALSE]
  ELSE IF fails \/ ~c.api_key_set THEN [raised |-> TRUE, text |-> text, sent |-> TRUE]
  ELSE [raised |-> FALSE, text |-> strip(Tr(text)), sent |-> TRUE]

\* lines 8-89: [raised, text, sent]; `fails` says whether the request, if one is sent, fails
translate_text(c, text, fails) ==
  IF text = <<>> THEN [raised |-> FALSE, text |-> <<>>, sent |-> FALSE]
  ELSE IF c.backend = "local_dummy" THEN [raised |-> FALSE, text |-> text, sent |-> FALSE]
  ELSE IF c.backend = "gemini"
       THEN IF ~c.api_key_set THEN [raised |-> TRUE, text |-> text, sent |-> FALSE]
            ELSE IF fails THEN [raised |-> FALSE, text |-> text, sent |-> TRUE]
            ELSE [raised |-> FALSE, text |-> strip(Tr(text)), sent |-> TRUE]
  ELSE IF ~c.api_key_set THEN [raised |-> FALSE, text |-> text, sent |-> FALSE]
       ELSE IF fails THEN [raised |-> FALSE, text |-> text, sent |-> TRUE]
       ELSE [raised |-> FALSE, text |-> strip(Tr(text)), sent |-> TRUE]

\* lines 328-335, 344-347: a field goes to translate_text when it is non-empty and holds no
\* CJK character
Eligible(text) == text # <<>> /\ ~is_chinese_text(text)

\* the translate_text calls of the field-by-field pass, in call order: [field, text]
PerFieldCalls(b) ==
  LET topics == Get(b, "topics", <<>>)
      captions == Get(b, "captions", <<>>)
      tcalls == Concat([i \in 1..Len(topics) |->
                  (IF Eligible(Get(topics[i], "summary", <<>>))
                   THEN <<[field |-> Field("summary", i), text |-> Get(topics[i], "summary", <<>>)]>>
                   ELSE <<>>)
                  \o (IF Eligible(Get(topics[i], "title", <<>>))
                      THEN <<[field |-> Field("title", i), text |-> Get(topics[i], "title", <<>>)]>>
                      ELSE <<>>)])
      ccalls == Concat([i \in 1..Len(captions) |->
                  IF Eligible(Get(captions[i], "text", <<>>))
                  THEN <<[field |-> Field("caption", i), text |-> Get(captions[i], "text", <<>>)]>>
                  ELSE <<>>])
  IN <<[field |-> Field("narration", 0), text |-> Get(b, "narration", <<>>)]>>
     \o tcalls \o ccalls

\* lines 313-351
PerField(c, b, failing) ==
  LET calls == PerFieldCalls(b)
      res(k) == translate_text(c, calls[k].text, calls[k].field \in failing)
      topics == Get(b, "topics", <<>>)
      captions == Get(b, "captions", <<>>)
      tx(field, text) ==
        IF \E k \in 1..Len(calls) : calls[k].field = field
        THEN translate_text(c, text, field \in failing).text
        ELSE text
      out1 == Put(b, "narration", tx(Field("narration", 0), Get(b, "narration", <<>>)))
      out2 == Put(out1, "topics",
                [i \in 1..Len(topics) |->
                   Put(Put(topics[i], "summary",
                           tx(Field("summary", i), Get(topics[i], "summary", <<>>))),
                       "title", tx(Field("title", i), Get(topics[i], "title", <<>>)))])
      out3 == Put(out2, "captions",
                [i \in 1..Len(captions) |->
                   Put(captions[i], "text",
                       tx(Field("caption", i), Get(captions[i], "text", <<>>)))])
      sentIdx == SelectIdx([k \in 1..Len(calls) |-> res(k).sent], 1, Len(calls))
  IN IF \E k \in 1..Len(calls) : res(k).raised
     THEN [status |-> "raised", bundle |-> EmptyDict, path |-> "per_field",
           error |-> "RuntimeError", requests |-> <<>>]
     ELSE [status |-> "returned", bundle |-> out3, path |-> "per_field", error |-> "none",
           requests |-> [j \in 1..Len(sentIdx) |-> calls[sentIdx[j]]]]

TrReturn(b, path) ==
  [status |-> "returned", bundle |-> b, path |-> path, error |-> "none", requests |-> <<>>]

BatchRequest(payload) == [field |-> Field("batch", 0), text |-> payload.narration]

WithBatch(r, payload) == [r EXCEPT !.requests = <<BatchRequest(payload)>> \o @]

\* lines 92-351
translate_bundle(c, b, resp) ==
  IF b = EmptyDict THEN TrReturn(b, "empty")
  ELSE
  LET payload == Payload(b)
      parts == english_narration_parts(Get(b, "topics", <<>>))
      content == IF c.backend = "gemini" THEN strip_fences(strip(resp.toks))
                 ELSE strip_fences(resp.toks)
      parsed == json_loads(content, TranslatedObj(payload, resp))
  IN IF NothingToTranslate(parts, payload.topics, payload.captions) THEN TrReturn(b, "noop")
     ELSE IF c.backend = "local_dummy" THEN TrReturn(b, "local_dummy")
     ELSE IF ~c.api_key_set THEN PerField(c, b, resp.failing)
     ELSE IF ~resp.ok \/ ~parsed.ok \/ parsed.pytype # "dict"
             \/ MapBackRaises(b, parsed.value)
          THEN WithBatch(PerField(c, b, resp.failing), payload)
     ELSE WithBatch(TrReturn(MapBack(b, parsed.value), "batched"), payload)

\* the result is the argument itself, written in place
argument_aliased(b, out) == out

\* the caller's bundle after a call that built `out`: every write of lines 213-238, 279-302
\* and 314-349 goes to dict(bundle), dict(t) or dict(c), and the other paths write nothing
argument_after(b, out) == b

-----------------------------------------------------------------------------
(* One call of translate_bundle(cfg, bundle, "zh") *)

TrEntry(title, summary) ==
  [title |-> title, source |-> "Reddit r/ai", url |-> "u1", summary |-> summary,
   key_points |-> <<"kp">>]

TrEntries ==
  {TrEntry(<<"Alpha">>, <<"sumA">>), TrEntry(<<"zhBeta">>, <<"sumB">>),
   TrEntry(<<"zhBeta">>, <<"zhSum">>), TrEntry(<<"Gamma">>, <<>>)}

Cap(i, text) == [start_s |-> seg * (i - 1), end_s |-> seg * i, text |-> text]

TrCaptionLists ==
  {<<>>, <<Cap(1, <<"cap1">>)>>, <<Cap(1, <<"zhCap">>)>>,
   <<Cap(1, <<"zhCap">>), Cap(2, <<"cap2">>)>>,
   <<Cap(1, <<"cap1">>), Cap(2, <<"cap2">>)>>}

TrBundles ==
  {[topics |-> ts, narration |-> LLMNarration(ts), captions |-> cs, hashtags |-> <<"#AI">>] :
     ts \in SeqsUpTo(TrEntries, MaxTrTopics), cs \in TrCaptionLists}
  \cup {EmptyDict}

NoTrResp == [ok |-> FALSE, toks |-> <<>>, nt |-> 0, nc |-> 0, has_narration |-> FALSE,
             items_are_dicts |-> TRUE, failing |-> {}]

FieldsOf(b) == {PerFieldCalls(b)[k].field : k \in 1..Len(PerFieldCalls(b))}

\* what the backend can do with the requests of one call on bundle b: a batched answer
\* that parses (whole, or cut short), or a batched call that fails followed by field
\* requests of which none, one or all fail
TrResponses(b) ==
  LET payload == Payload(b)
      nT == Len(payload.topics)
      nC == Len(payload.captions)
      answer(ok, toks, nt, nc, hn, dicts, failing) ==
        [ok |-> ok, toks |-> toks, nt |-> nt, nc |-> nc, has_narration |-> hn,
         items_are_dicts |-> dicts, failing |-> failing]
  IN {answer(TRUE, <<"OBJ">>, nt, nc, TRUE, TRUE, {}) : nt \in 0..nT, nc \in 0..nC}
     \cup {answer(TRUE, <<"FENCE", "json", "W", "OBJ", "W", "FENCE">>, nT, nC, TRUE, TRUE, {}),
           answer(TRUE, <<"OBJ">>, nT, nC, FALSE, TRUE, {}),
           answer(TRUE, <<"TRUNC">>, nT, nC, TRUE, TRUE, {}),
           answer(TRUE, <<"LIST">>, nT, nC, TRUE, TRUE, {}),
           answer(TRUE, <<"OBJ">>, nT, nC, TRUE, FALSE, {}),
           answer(TRUE, <<"W", "FENCE", "json", "OBJ", "FENCE">>, nT, nC, TRUE, TRUE, {}),
           answer(FALSE, <<>>, nT, nC, TRUE, TRUE, FieldsOf(b))}
     \cup {answer(FALSE, <<>>, nT, nC, TRUE, TRUE, {}) }
     \cup {answer(FALSE, <<>>, nT, nC, TRUE, TRUE, {f}) : f \in FieldsOf(b)}

TInit ==
  /\ t_pc = "call"
  /\ t_cfg \in [backend : Backends, api_key_set : BOOLEAN]
  /\ t_bundle \in TrBundles
  /\ t_resp = NoTrResp
  /\ t_requests = <<>>
  /\ t_out = [status |-> "none", bundle |-> EmptyDict, path |-> "none", error |-> "none"]
  /\ SIdle /\ RIdle /\ OIdle /\ EIdle /\ FIdle /\ VIdle

TrCall(resp, paths) ==
  LET r == translate_bundle(t_cfg, t_bundle, resp) IN
  /\ t_pc = "call"
  /\ r.path \in paths
  /\ t_resp' = resp
  /\ t_requests' = r.requests
  /\ t_out' = [status |-> r.status, bundle |-> r.bundle, path |-> r.path, error |-> r.error]
  /\ t_bundle' = argument_after(t_bundle, r.bundle)
  /\ t_pc' = "done"
  /\ UNCHANGED <<t_cfg, svars, rvars, ovars, evars, fvars, vvars>>

\* translate_bundle returns its argument: nothing to translate, or backend local_dummy
TranslateReturnsInput == TrCall(NoTrResp, {"empty", "noop", "local_dummy"})

\* the batched answer parses and is mapped back
TranslateBatched == \E resp \in TrResponses(t_bundle) : TrCall(resp, {"batched"})

\* the batched call fails; field-by-field pass
TranslatePerField == \E resp \in TrResponses(t_bundle) : TrCall(resp, {"per_field"})

TNext == TranslateReturnsInput \/ TranslateBatched \/ TranslatePerField

SpecTranslate == TInit /\ [][TNext]_vars

-----------------------------------------------------------------------------
(* Claims about translate_bundle *)

TReturned == t_pc = "done" /\ t_out.status = "returned"

InTopics == Get(t_bundle, "topics", <<>>)
InCaptions == Get(t_bundle, "captions", <<>>)
OutTopics == Get(t_out.bundle, "topics", <<>>)
OutCaptions == Get(t_out.bundle, "captions", <<>>)

HasCJK(text) == \E i \in 1..Len(text) : text[i] \in CJKTokens

\* the batched call carries topic i when neither its title nor its summary holds CJK, and
\* caption i when its text holds none; what is carried keeps its relative order
BatchCarriesTopic(i) == ~HasCJK(InTopics[i].title) /\ ~HasCJK(InTopics[i].summary)
BatchCarriesCaption(i) == ~HasCJK(InCaptions[i].text)
TopicRank(i) == Cardinality({k \in 1..i : BatchCarriesTopic(k)})
CaptionRank(i) == Cardinality({k \in 1..i : BatchCarriesCaption(k)})
TopicAnswered(i) == BatchCarriesTopic(i) /\ TopicRank(i) <= t_resp.nt
CaptionAnswered(i) == BatchCarriesCaption(i) /\ CaptionRank(i) <= t_resp.nc

\* a field-by-field request for this field was sent and did not fail
FieldAnswered(kind, i) ==
  /\ \E k \in 1..Len(t_requests) : t_requests[k].field = Field(kind, i)
  /\ Field(kind, i) \notin t_resp.failing

Translated(entry, key, answered) ==
  IF answered THEN [entry EXCEPT ![key] = Tr(@)] ELSE entry

\* C7: translate_bundle keeps the number of topics and captions; position i of the output
\* is position i of the input with each field replaced by its received translation, found
\* through the index map also when fewer items come back than were sent; a field that was
\* not sent, and an entry none of whose fields was sent, is the input's.
C7_TranslationKeepsPositions ==
  TReturned =>
    /\ Len(OutTopics) = Len(InTopics)
    /\ Len(OutCaptions) = Len(InCaptions)
    /\ t_out.path = "batched" =>
         /\ \A i \in 1..Len(InTopics) :
              OutTopics[i] = Translated(Translated(InTopics[i], "title", TopicAnswered(i)),
                                        "summary", TopicAnswered(i))
         /\ \A i \in 1..Len(InCaptions) :
              OutCaptions[i] = Translated(InCaptions[i], "text", CaptionAnswered(i))
    /\ t_out.path = "per_field" =>
         /\ \A i \in 1..Len(InTopics) :
              OutTopics[i] = Translated(Translated(InTopics[i], "title", FieldAnswered("title", i)),
                                        "summary", FieldAnswered("summary", i))
         /\ \A i \in 1..Len(InCaptions) :
              OutCaptions[i] = Translated(InCaptions[i], "text", FieldAnswered("caption", i))
         /\ \A k \in 1..Len(t_requests) :
              t_requests[k].field.kind \in {"title", "summary", "caption"} =>
                ~HasCJK(t_requests[k].text)
    /\ t_out.path \notin {"batched", "per_field"} =>
         OutTopics = InTopics /\ OutCaptions = InCaptions

\* a batched answer with fewer topics than were sent, and a caption translated behind a
\* caption that was not sent
C7_Witness ==
  /\ TReturned /\ t_out.path = "batched"
  /\ Len(InTopics) = 2 /\ BatchCarriesTopic(1) /\ BatchCarriesTopic(2) /\ t_resp.nt = 1
  /\ OutTopics[1].title = Tr(InTopics[1].title) /\ OutTopics[2] = InTopics[2]
  /\ Len(InCaptions) = 2 /\ ~BatchCarriesCaption(1) /\ t_resp.nc = 1
  /\ OutCaptions[2].text = Tr(InCaptions[2].text)

NumberTokens(text) == SelectSeq(text, LAMBDA x : x \in NumToks)

\* C8: the narration translate_bundle returns has one numbered entry per topic, in topic
\* order, also for a bundle that mixes Chinese and English topics.
C8_NarrationAligned ==
  TReturned =>
    NumberTokens(Get(t_out.bundle, "narration", <<>>))
      = [i \in 1..Len(OutTopics) |-> NumTok(i)]

BatchRequestSent == t_requests # <<>> /\ t_requests[1].field.kind = "batch"

BatchFailed ==
  \/ ~t_resp.ok
  \/ t_resp.toks \in {<<"TRUNC">>, <<"LIST">>}
  \/ ~t_resp.items_are_dicts /\ t_resp.nt > 0

\* the fields the field-by-field pass has to ask for: the narration, and every title,
\* summary and caption text that is non-empty and holds no CJK character
DueFields ==
  (IF Get(t_bundle, "narration", <<>>) # <<>> THEN {Field("narration", 0)} ELSE {})
  \cup {Field("title", i) : i \in {k \in 1..Len(InTopics) :
          InTopics[k].title # <<>> /\ ~HasCJK(InTopics[k].title)}}
  \cup {Field("summary", i) : i \in {k \in 1..Len(InTopics) :
          InTopics[k].summary # <<>> /\ ~HasCJK(InTopics[k].summary)}}
  \cup {Field("caption", i) : i \in {k \in 1..Len(InCaptions) :
          InCaptions[k].text # <<>> /\ ~HasCJK(InCaptions[k].text)}}

FieldText(b, f) ==
  IF f.kind = "narration" THEN Get(b, "narration", <<>>)
  ELSE IF f.kind = "caption" THEN Get(b, "captions", <<>>)[f.idx].text
  ELSE Get(b, "topics", <<>>)[f.idx][f.kind]

EverythingIsChinese ==
  /\ \A i \in 1..Len(InTopics) : HasCJK(InTopics[i].title) \/ HasCJK(InTopics[i].summary)
  /\ \A i \in 1..Len(InCaptions) : HasCJK(InCaptions[i].text)

\* C10: when every topic and every caption already holds CJK characters translate_bundle
\* returns the input bundle, equal in every field, and sends no translation request.
C10_NoOpWhenAllChinese ==
  t_pc = "done" /\ EverythingIsChinese =>
    /\ t_out.status = "returned"
    /\ t_out.bundle = t_bundle
    /\ t_requests = <<>>

C10_Witness ==
  /\ t_pc = "done" /\ EverythingIsChinese
  /\ t_cfg.backend = "gemini" /\ t_cfg.api_key_set
  /\ Len(InTopics) = 2 /\ Len(InCaptions) = 1
  /\ ~HasCJK(InTopics[1].summary)
  /\ t_out.bundle = t_bundle

-----------------------------------------------------------------------------
(* captions.py: the subtitle file; caption times are whole seconds *)

MsPerSecond == 1000
SecondsPerHour == 3600
SecondsPerMinute == 60
DefaultCueLength == 3

\* lines 6-15: the fields of HH:MM:SS,mmm
_fmt_time(seconds) ==
  LET ms0 == seconds * MsPerSecond
      s0 == ms0 \div MsPerSecond
      ms == ms0 % MsPerSecond
      hh == s0 \div SecondsPerHour
      s1 == s0 % SecondsPerHour
      mm == s1 \div SecondsPerMinute
      ss == s1 % SecondsPerMinute
  IN [hh |-> hh, mm |-> mm, ss |-> ss, ms |-> ms]

\* lines 22-30: the four lines of the cue for the i-th caption
Cue(i, cap) ==
  LET start == Get(cap, "start_s", 0)
      end == Get(cap, "end_s", start + DefaultCueLength)
  IN [index |-> i, start |-> _fmt_time(start), end |-> _fmt_time(end),
      text |-> strip(Get(cap, "text", <<>>))]

RECURSIVE SrtLoop(_, _, _)
\* lines 21-30: enumerate(captions, start=1), a caption without text skipped
SrtLoop(captions, i, lines) ==
  IF i > Len(captions) THEN lines
  ELSE IF strip(Get(captions[i], "text", <<>>)) = <<>> THEN SrtLoop(captions, i + 1, lines)
  ELSE SrtLoop(captions, i + 1, Append(lines, Cue(i, captions[i])))

\* the cues of captions.srt
srt_cues(captions) == SrtLoop(captions, 1, <<>>)

-----------------------------------------------------------------------------
(* main.py: run_once, up to the video of the day (lines 23-390) *)

MaxSelect == 2        \* sources.ai_topic_selection.max_topics_to_select of a run
retain_days == 30

\* the headlines a fetch can return: per source in the order reddit, hackernews, chinanews,
\* each source's list sorted by score
RunTopics == <<TopicEn, TopicNoUrl, TopicSameTitle, TopicZh>>

HeadlineLists ==
  {LET idx == SelectIdx([i \in 1..Len(RunTopics) |-> i \in S], 1, Len(RunTopics))
   IN [j \in 1..Len(idx) |-> RunTopics[idx[j]]] :
     S \in {T \in SUBSET (1..Len(RunTopics)) : Cardinality(T) <= MaxHeadlines}}

\* a file of the day directory: the JSON value it holds and whether this run wrote it
File(pytype, value, run) == [pytype |-> pytype, value |-> value, run |-> run]

\* today's summary.json as an earlier run of the day can have left it
TodayFiles ==
  {EmptyDict,
   [f \in {"summary.json"} |-> File("dict", _dummy(<<TopicEn, TopicZh>>, FALSE), FALSE)],
   [f \in {"summary.json"} |-> File("dict", _dummy(<<>>, FALSE), FALSE)],
   [f \in {"summary.json"} |-> File("list", EmptyDict, FALSE)]}

\* a summary.json of an earlier day found under the output root
HistFile(name_is_date, age_days, parses, topics) ==
  [name_is_date |-> name_is_date, age_days |-> age_days, parses |-> parses,
   topics |-> topics]

HistEntry(url, title) == [url |-> url, title |-> title]

HRecent == HistFile(TRUE, 1, TRUE, <<HistEntry("u1", <<"Alpha">>)>>)
HNoUrl == HistFile(TRUE, 2, TRUE, <<HistEntry("", <<"Gamma">>), HistEntry("", <<"Alpha">>)>>)
HOld == HistFile(TRUE, retain_days + 1, TRUE, <<HistEntry("u2", <<"zhBeta">>)>>)
HLatest == HistFile(FALSE, 0, TRUE, <<HistEntry("u2", <<"zhBeta">>)>>)
HBroken == HistFile(TRUE, 1, FALSE, <<>>)
HAll == HistFile(TRUE, retain_days, TRUE,
                 <<HistEntry("u1", <<"Alpha">>), HistEntry("u2", <<"zhBeta">>),
                   HistEntry("u4", <<"Alpha">>), HistEntry("", <<"Gamma">>)>>)

Histories == {{}, {HRecent}, {HNoUrl}, {HOld, HLatest, HBroken}, {HAll}}

\* lines 94-117: the files of the scan, today's summary.json among them
ScannedFiles(h, fs) ==
  h \cup (IF "summary.json" \in DOMAIN fs
          THEN {HistFile(TRUE, 0, fs["summary.json"].pytype = "dict",
                         Get(fs["summary.json"].value, "topics", <<>>))}
          ELSE {})

\* the window applied whatever its length
InWindowBounded(f, days) == f.name_is_date /\ f.age_days <= days

\* lines 97-106
InWindow(f, days) == days > 0 => f.name_is_date /\ f.age_days <= days

Readable(h, fs, days) == {f \in ScannedFiles(h, fs) : InWindow(f, days) /\ f.parses}

\* lines 109-115
already_urls(h, fs, days) ==
  UNION {{f.topics[i].url : i \in {k \in 1..Len(f.topics) : f.topics[k].url # ""}} :
           f \in Readable(h, fs, days)}

already_titles(h, fs, days) ==
  UNION {{f.topics[i].title :
            i \in {k \in 1..Len(f.topics) : f.topics[k].url = "" /\ f.topics[k].title # <<>>}} :
           f \in Readable(h, fs, days)}

\* lines 123-130
_is_previously_summarized(topic, urls, titles) ==
  \/ topic.url # "" /\ topic.url \in urls
  \/ topic.title # <<>> /\ topic.title \in titles

\* line 132
filtered(headlines, urls, titles) ==
  SelectSeq(headlines, LAMBDA t : ~_is_previously_summarized(t, urls, titles))

\* the filter without the fallback of lines 136-137
PoolWithoutFallback(headlines, kept) == kept

\* lines 134-137
PoolAfterFilter(headlines, kept) == IF Len(kept) > 0 THEN kept ELSE headlines

\* lines 86-139
FilteredPool(headlines, h, fs, days) ==
  LET urls == already_urls(h, fs, days)
      titles == already_titles(h, fs, days)
  IN IF urls # {} \/ titles # {}
     THEN PoolAfterFilter(headlines, filtered(headlines, urls, titles))
     ELSE headlines

\* lines 38-51: the topics rebuilt from the entries of a loaded summary.json
ReusedTopics(existing) ==
  LET es == Get(existing, "topics", <<>>) IN
  [i \in 1..Len(es) |->
     [title |-> Get(es[i], "title", <<>>), url |-> Get(es[i], "url", ""), score |-> 0,
      source |-> Get(es[i], "source", ""), excerpt |-> <<>>, content |-> <<>>,
      comments |-> <<>>]]

RunInit ==
  /\ pc = "start"
  /\ cfg \in [backend : Backends, api_key_set : BOOLEAN, skip_already_summarized : BOOLEAN,
              ai_topic_selection : BOOLEAN, max_topics_to_select : {MaxSelect},
              retain_days : {0, retain_days}, send_chinese : BOOLEAN]
  /\ cfg.backend = "local_dummy" => cfg.api_key_set    \* local_dummy reads no key
  \* lines 23-390 read retain_days in the history scan only
  /\ ~cfg.skip_already_summarized => cfg.retain_days = retain_days
  /\ files \in TodayFiles
  /\ hist = {} /\ all_headlines = <<>> /\ selection_pool = <<>>
  /\ selected_indices = <<>> /\ all_selected_topics = <<>>
  /\ bundle = NoResult /\ chinese_bundle = NoResult
  /\ llm_calls = <<>> /\ reuse_entire_run = FALSE /\ raised = "none"
  /\ video = "pending" /\ already = NoHistory /\ enrich_log = <<>>

Init == RunInit /\ SIdle /\ TIdle /\ OIdle /\ EIdle /\ FIdle /\ VIdle

\* lines 29-55 and 63-83 when today's summary.json is not loaded
FetchHeadlines ==
  /\ pc = "start"
  /\ cfg.skip_already_summarized \/ "summary.json" \notin DOMAIN files
  /\ \E hl \in HeadlineLists : all_headlines' = hl
  /\ pc' = "fetched"
  /\ UNCHANGED <<cfg, hist, selection_pool, selected_indices, all_selected_topics, bundle,
                 chinese_bundle, files, llm_calls, reuse_entire_run, raised, video, already, enrich_log, svars, tvars, ovars, evars, fvars, vvars>>

\* lines 29-55 and 63-83 when today's summary.json is loaded; a file that holds no object
\* stays in `bundle` although the reuse is given up (line 35 precedes line 39)
LoadAndFetchHeadlines ==
  /\ pc = "start"
  /\ ~cfg.skip_already_summarized /\ "summary.json" \in DOMAIN files
  /\ LET existing == files["summary.json"] IN
       /\ bundle' = [NoResult EXCEPT !.status = "returned", !.pytype = existing.pytype,
                                     !.bundle = existing.value, !.via = "reused"]
       /\ reuse_entire_run' = (existing.pytype = "dict")
       /\ all_selected_topics' =
            IF existing.pytype = "dict" THEN ReusedTopics(existing.value) ELSE <<>>
  /\ \E hl \in HeadlineLists : all_headlines' = hl
  /\ pc' = "fetched"
  /\ UNCHANGED <<cfg, hist, selection_pool, selected_indices, chinese_bundle, files,
                 llm_calls, raised, video, already, enrich_log, svars, tvars, ovars, evars, fvars, vvars>>

\* lines 86-139: the history scan and the filter
FilterByHistory ==
  /\ pc = "fetched"
  /\ cfg.skip_already_summarized /\ ~reuse_entire_run
  /\ \E h \in Histories :
       /\ hist' = h
       /\ already' = [urls |-> already_urls(h, files, cfg.retain_days),
                      titles |-> already_titles(h, files, cfg.retain_days)]
       /\ selection_pool' = FilteredPool(all_headlines, h, files, cfg.retain_days)
  /\ pc' = "filtered"
  /\ UNCHANGED <<cfg, all_headlines, selected_indices, all_selected_topics, bundle,
                 chinese_bundle, files, llm_calls, reuse_entire_run, raised, video,
                 enrich_log, svars, tvars, ovars, evars, fvars, vvars>>

\* lines 86 and 140-142
PoolWithoutFilter ==
  /\ pc = "fetched"
  /\ ~(cfg.skip_already_summarized /\ ~reuse_entire_run)
  /\ selection_pool' = IF reuse_entire_run THEN all_selected_topics ELSE all_headlines
  /\ pc' = "filtered"
  /\ UNCHANGED <<cfg, hist, all_headlines, selected_indices, all_selected_topics, bundle,
                 chinese_bundle, files, llm_calls, reuse_entire_run, raised, video, already, enrich_log, svars, tvars, ovars, evars, fvars, vvars>>

\* summarize.py line 168: x[1].score or 0
score_or_0(topic) == IF topic.score = NoScore THEN 0 ELSE topic.score

\* the positions (from 0) in list order
list_order(headlines) == [r \in 1..Len(headlines) |-> r - 1]

\* summarize.py lines 167-169: positions (from 0) by score, highest first, ties in list order
sorted_topics(headlines) ==
  LET n == Len(headlines)
      rank(i) == Cardinality({j \in 1..n :
                   \/ score_or_0(headlines[j]) > score_or_0(headlines[i])
                   \/ score_or_0(headlines[j]) = score_or_0(headlines[i]) /\ j < i}) + 1
  IN [r \in 1..n |-> (CHOOSE i \in 1..n : rank(i) = r) - 1]

\* range(min(max_topics, len(headlines)))
FirstIndices(headlines, max_topics) ==
  [k \in 1..Min(max_topics, Len(headlines)) |-> k - 1]

\* summarize.py lines 55-172: [raised, indices, called]
select_topics_with_ai(c, headlines, max_topics, answer) ==
  IF c.backend = "local_dummy"
  THEN [raised |-> "none", indices |-> FirstIndices(headlines, max_topics), called |-> FALSE]
  ELSE IF c.backend = "gemini"
  THEN IF ~c.api_key_set
       THEN [raised |-> "RuntimeError", indices |-> <<>>, called |-> FALSE]
       ELSE IF ~answer.ok
       THEN [raised |-> "none", indices |-> Take(sorted_topics(headlines), max_topics),
             called |-> TRUE]
       ELSE [raised |-> "none", indices |-> answer.selected_indices, called |-> TRUE]
  ELSE [raised |-> "none", indices |-> FirstIndices(headlines, max_topics), called |-> FALSE]

\* what the model can answer to the selection prompt for n headlines: nothing that line 156
\* and 157 accept (the request raises, the text parses as no JSON or as no object), or a
\* selected_indices list
SelectionAnswers(n, max_topics) ==
  LET first == [k \in 1..Min(max_topics, n) |-> k - 1] IN
  {[ok |-> FALSE, selected_indices |-> <<>>]}
  \cup {[ok |-> TRUE, selected_indices |-> q] :
          q \in {<<>>, first, Reverse(first), <<n>>, <<0, 0>>, <<-1>>,
                 [k \in 1..n |-> k - 1]}}

\* Python list indexing from 0; a negative index counts from the end
IndexInRange(pool, i) == -Len(pool) <= i /\ i < Len(pool)
Index(pool, i) == IF i >= 0 THEN pool[i + 1] ELSE pool[Len(pool) + i + 1]

\* lines 146-160
SelectWithAI ==
  /\ pc = "filtered"
  /\ cfg.ai_topic_selection
  /\ \E answer \in IF cfg.backend = "gemini" /\ cfg.api_key_set
                   THEN SelectionAnswers(Len(selection_pool), cfg.max_topics_to_select)
                   ELSE {[ok |-> FALSE, selected_indices |-> <<>>]} :
       LET r == select_topics_with_ai(cfg, selection_pool, cfg.max_topics_to_select, answer)
           ok == r.raised = "none"
                 /\ \A k \in 1..Len(r.indices) : IndexInRange(selection_pool, r.indices[k])
       IN /\ llm_calls' = IF ~r.called THEN llm_calls
                          ELSE Append(llm_calls, IF answer.ok THEN "select" ELSE "select_failed")
          /\ selected_indices' = r.indices
          /\ all_selected_topics' =
               IF ok THEN [k \in 1..Len(r.indices) |-> Index(selection_pool, r.indices[k])]
               ELSE all_selected_topics
          /\ pc' = IF ok THEN "selected" ELSE "raised"
          /\ raised' = IF ok THEN "none"
                       ELSE IF r.raised # "none" THEN r.raised ELSE "IndexError"
  /\ UNCHANGED <<cfg, hist, all_headlines, selection_pool, bundle, chinese_bundle, files,
                 reuse_entire_run, video, already, enrich_log, svars, tvars, ovars, evars, fvars, vvars>>

\* lines 161-164
SelectWholePool ==
  /\ pc = "filtered"
  /\ ~cfg.ai_topic_selection
  /\ all_selected_topics' = selection_pool
  /\ pc' = "selected"
  /\ UNCHANGED <<cfg, hist, all_headlines, selection_pool, selected_indices, bundle,
                 chinese_bundle, files, llm_calls, reuse_entire_run, raised, video, already, enrich_log, svars, tvars, ovars, evars, fvars, vvars>>

\* multi_source_fetch.py lines 478-493; no URL of RunTopics carries 'item?id='
fetch_comments_for_topic(topic, reachable) ==
  IF topic.source = "Reddit r/ai" /\ reachable THEN <<"comment">> ELSE <<>>

\* the page text although the request failed
fetch_cached_content(url, reachable) ==
  IF url # "" THEN <<"body">> ELSE <<>>

\* multi_source_fetch.py lines 322-375
fetch_article_content(url, reachable) ==
  IF url # "" /\ reachable THEN <<"body">> ELSE <<>>

\* the selected topics whose site does not answer during lines 180-200: none, all, the
\* first alone or the last alone
FailSets(n) == {{}, 1..n, {1} \cap (1..n), {n} \cap (1..n)}

\* the calls as they would be with the article texts fetched for every headline of the pool
EnrichCallsWholePool(topics, down) ==
  [i \in 1..Len(selection_pool) |->
     [kind |-> "content", topic |-> selection_pool[i], failed |-> i \in down]]

\* the calls of lines 182 and 196, in order: the loop over the comments, then the loop over
\* the article texts, each over all_selected_topics
EnrichCalls(topics, down) ==
  [i \in 1..Len(topics) |-> [kind |-> "comments", topic |-> topics[i], failed |-> i \in down]]
  \o [i \in 1..Len(topics) |-> [kind |-> "content", topic |-> topics[i], failed |-> i \in down]]

\* lines 180-216: comments and article text of the selected topics, then topics.json
EnrichAndWriteTopics ==
  /\ pc = "selected"
  /\ \E down \in FailSets(Len(all_selected_topics)) :
       LET enriched == [i \in 1..Len(all_selected_topics) |->
                          [all_selected_topics[i] EXCEPT
                             !.comments = fetch_comments_for_topic(all_selected_topics[i],
                                                                   i \notin down),
                             !.content = fetch_article_content(all_selected_topics[i].url,
                                                               i \notin down)]]
       IN /\ all_selected_topics' = enriched
          /\ enrich_log' = enrich_log \o EnrichCalls(all_selected_topics, down)
          /\ files' = Put(files, "topics.json", File("list", enriched, TRUE))
  /\ pc' = "topics_written"
  /\ UNCHANGED <<cfg, hist, all_headlines, selection_pool, selected_indices, bundle,
                 chinese_bundle, llm_calls, reuse_entire_run, raised, video, already, svars, tvars, ovars, evars, fvars, vvars>>

\* the answers to the summarization request that a run draws from
RunAnswers ==
  {NoResp}
  \cup {[ok |-> TRUE, toks |-> <<"OBJ">>, kind |-> kind] :
          kind \in {"faithful", "fewer", "swapped", "null_entry"}}
  \cup {[ok |-> TRUE, toks |-> toks, kind |-> "none"] : toks \in {<<"LIST">>, <<"TRUNC">>}}

\* the backend's behaviour towards the translation requests of a run: every request is
\* answered in full, or every request fails
RunTrResponses(b) ==
  LET payload == Payload(b) IN
  {[NoTrResp EXCEPT !.ok = TRUE, !.toks = <<"OBJ">>, !.nt = Len(payload.topics),
                    !.nc = Len(payload.captions), !.has_narration = TRUE],
   [NoTrResp EXCEPT !.failing = FieldsOf(b)]}

\* an answer is drawn when a request is sent
RunResponses ==
  IF bundle.status = "none" /\ cfg.backend = "gemini" /\ cfg.api_key_set
  THEN RunAnswers ELSE {NoResp}

\* lines 224-225
Summarized(resp) ==
  IF bundle.status = "none" THEN summarize(cfg, all_selected_topics, FALSE, resp)
  ELSE bundle

\* lines 228-235: the try block; None is NoResult; `argument` is `bundle` after the block
Translation(b, tresp) ==
  IF ~cfg.send_chinese \/ b.pytype # "dict"
  THEN [result |-> NoResult, requests |-> <<>>, argument |-> b.bundle]
  ELSE LET r == translate_bundle(cfg, b.bundle, tresp) IN
       IF r.status = "returned"
       THEN [result |-> Returned(r.bundle, r.path, "none"), requests |-> r.requests,
             argument |-> argument_after(b.bundle, r.bundle)]
       ELSE [result |-> NoResult, requests |-> <<>>,
             argument |-> argument_after(b.bundle, r.bundle)]

SummarizeCalls(resp) ==
  IF bundle.status = "none" /\ cfg.backend = "gemini" /\ cfg.api_key_set
  THEN <<"summarize">> ELSE <<>>

\* the way lines 224-256 end for the bundle b
Ends(b) ==
  IF b.status = "raised" THEN "summarize_raises"
  ELSE IF b.pytype # "dict" THEN "bundle_no_object"
  ELSE "written"

\* script.txt alone: summary.json left for a later step
WriteScriptOnly(fs, b) ==
  Put(fs, "script.txt", File("text", Get(b, "narration", <<>>), TRUE))

\* lines 252-256: script.txt and summary.json of the day directory
WriteSummaryFiles(fs, b) ==
  Put(Put(fs, "script.txt", File("text", Get(b, "narration", <<>>), TRUE)),
      "summary.json", File("dict", b, TRUE))

\* lines 228-256 for the bundle b of line 225 and the outcome tr of the translation step
Finish(resp, b, tr) ==
  /\ llm_calls' = llm_calls \o SummarizeCalls(resp)
                  \o [k \in 1..Len(tr.requests) |-> "translate"]
  /\ bundle' = IF b.status = "raised" THEN bundle ELSE [b EXCEPT !.bundle = tr.argument]
  /\ chinese_bundle' = IF b.status = "raised" THEN chinese_bundle ELSE tr.result
  /\ files' = IF Ends(b) = "written" THEN WriteSummaryFiles(files, tr.argument) ELSE files
  /\ pc' = IF Ends(b) = "written" THEN "summary_written" ELSE "raised"
  /\ raised' = IF Ends(b) = "written" THEN "none"
               ELSE IF Ends(b) = "summarize_raises" THEN b.error ELSE "AttributeError"
  /\ UNCHANGED <<cfg, hist, all_headlines, selection_pool, selected_indices,
                 all_selected_topics, reuse_entire_run, video, already, enrich_log, svars, tvars, ovars, evars, fvars, vvars>>

\* a translation answer is drawn when translate_bundle can send a request
TrAnswersFor(b) ==
  IF /\ b.status = "returned" /\ b.pytype = "dict"
     /\ cfg.send_chinese /\ cfg.backend \in LLMBackends /\ cfg.api_key_set
  THEN RunTrResponses(b.bundle) ELSE {NoTrResp}

\* lines 218-256 for one answer to the summarization request and one behaviour of the
\* backend towards translation; `outcome` names the way the lines end
SummarizeAndWrite(outcome) ==
  /\ pc = "topics_written"
  /\ \E resp \in RunResponses : \E b \in {Summarized(resp)} :
       /\ Ends(b) = outcome
       /\ \E tresp \in TrAnswersFor(b) : \E tr \in {Translation(b, tresp)} :
            Finish(resp, b, tr)

\* the bundle is summarized or reused, translated, and script.txt and summary.json written
WriteSummary == SummarizeAndWrite("written")

\* summarize raises (line 225)
SummarizeRaises == SummarizeAndWrite("summarize_raises")

\* the bundle is no JSON object: bundle.get raises (line 237)
BundleIsNoObject == SummarizeAndWrite("bundle_no_object")

\* tts.py lines 28-54: voice.<fmt> in the day directory
synthesize(fs, text) == Put(fs, "voice", File("audio", text, TRUE))

\* captions.py lines 17-32: captions.srt in the day directory
write_srt(fs, captions) == Put(fs, "captions.srt", File("srt", srt_cues(captions), TRUE))

\* render.py lines 16-108 and main.py lines 382-383: final.mp4 and its checksum
render_video(fs) ==
  Put(Put(fs, "final.mp4", File("video", <<>>, TRUE)),
      "final.sha256", File("text", <<"sha256">>, TRUE))

\* lines 258-349 and 385-390: the notifications are sent (no failure of theirs leaves
\* send_summary_email or the try blocks) and cfg.video.enabled is false
SkipVideo ==
  /\ pc = "summary_written"
  /\ video' = "disabled"
  /\ pc' = "video_done"
  /\ UNCHANGED <<cfg, hist, all_headlines, selection_pool, selected_indices,
                 all_selected_topics, bundle, chinese_bundle, files, llm_calls,
                 reuse_entire_run, raised, already, enrich_log, svars, tvars, ovars, evars, fvars, vvars>>

\* lines 258-384 with cfg.video.enabled; `outcome` is how the lines end: synthesize raises
\* (tts.py lines 40, 49, 54), render_video raises (render.py lines 13, 30, 52, 106), or
\* final.mp4 and final.sha256 are written
VideoStep(outcome) ==
  /\ pc = "summary_written"
  /\ video' = outcome
  /\ files' =
       IF outcome = "tts_raised" THEN files
       ELSE LET spoken == write_srt(synthesize(files, Get(bundle.bundle, "narration", <<>>)),
                                    Get(bundle.bundle, "captions", <<>>))
            IN IF outcome = "render_raised" THEN spoken ELSE render_video(spoken)
  /\ pc' = IF outcome = "rendered" THEN "video_done" ELSE "raised"
  /\ raised' = IF outcome = "rendered" THEN raised ELSE "RuntimeError"
  /\ UNCHANGED <<cfg, hist, all_headlines, selection_pool, selected_indices,
                 all_selected_topics, bundle, chinese_bundle, llm_calls,
                 reuse_entire_run, already, enrich_log, svars, tvars, ovars, evars, fvars, vvars>>

SynthesizeRaises == VideoStep("tts_raised")

RenderRaises == VideoStep("render_raised")

RenderVideo == VideoStep("rendered")

Next ==
  \/ FetchHeadlines
  \/ LoadAndFetchHeadlines
  \/ FilterByHistory
  \/ PoolWithoutFilter
  \/ SelectWithAI
  \/ SelectWholePool
  \/ EnrichAndWriteTopics
  \/ WriteSummary
  \/ SummarizeRaises
  \/ BundleIsNoObject
  \/ SkipVideo
  \/ SynthesizeRaises
  \/ RenderRaises
  \/ RenderVideo

Spec == Init /\ [][Next]_vars

-----------------------------------------------------------------------------
(* Claims about run_once *)

BundleTopics == Get(bundle.bundle, "topics", <<>>)

\* C1: the bundle the summarization step hands on has one topics entry per selected topic,
\* and entry i describes selected topic i.
C1_BundlePositional ==
  pc = "summary_written" =>
    /\ Len(BundleTopics) = Len(all_selected_topics)
    /\ \A i \in 1..Len(BundleTopics) :
         Get(BundleTopics[i], "title", <<>>) = all_selected_topics[i].title

WrittenThisRun(name) == name \in DOMAIN files /\ files[name].run

\* C2: a run ends with topics.json and summary.json written; an exception ends it only for
\* a missing credential (the renderer runs after the two files).
C2_ArtifactsAlwaysWritten ==
  /\ pc = "raised" => raised = "RuntimeError"
  /\ pc = "summary_written" => WrittenThisRun("topics.json") /\ WrittenThisRun("summary.json")

SelectionDone ==
  pc \in {"selected", "topics_written", "summary_written", "video_done", "raised"}

\* C5: the indices select_topics_with_ai returns are pairwise distinct, each lies in
\* [0, len(pool)), and there are at most max_topics of them.
C5_SelectionValid ==
  SelectionDone /\ cfg.ai_topic_selection =>
    /\ \A k \in 1..Len(selected_indices) :
         0 <= selected_indices[k] /\ selected_indices[k] < Len(selection_pool)
    /\ \A j, k \in 1..Len(selected_indices) :
         j # k => selected_indices[j] # selected_indices[k]
    /\ Len(selected_indices) <= cfg.max_topics_to_select

\* the selection request was sent and failed, or its answer did not parse
ScoreFallbackTaken ==
  /\ SelectionDone /\ cfg.ai_topic_selection
  /\ llm_calls # <<>> /\ llm_calls[1] = "select_failed"

\* the score of pool entry i (from 0), a missing score counting as 0
PoolScore(i) ==
  IF selection_pool[i + 1].score = NoScore THEN 0 ELSE selection_pool[i + 1].score

\* candidate i is ranked before candidate j: higher score, or equal score and earlier
RankedBefore(i, j) ==
  PoolScore(i) > PoolScore(j) \/ (PoolScore(i) = PoolScore(j) /\ i < j)

\* C15: when the selection request fails or its answer does not parse, the indices
\* returned are those of the max_topics candidates of highest score, in descending score
\* order, a missing score counting as 0 and equal scores keeping the list order.
C15_ScoreFallback ==
  ScoreFallbackTaken =>
    /\ Len(selected_indices) = Min(cfg.max_topics_to_select, Len(selection_pool))
    /\ \A k \in 1..Len(selected_indices) :
         selected_indices[k] \in 0..(Len(selection_pool) - 1)
    /\ \A k \in 1..(Len(selected_indices) - 1) :
         RankedBefore(selected_indices[k], selected_indices[k + 1])
    /\ \A k \in 1..Len(selected_indices) :
         \A j \in 0..(Len(selection_pool) - 1) :
           (\A m \in 1..Len(selected_indices) : selected_indices[m] # j)
             => RankedBefore(selected_indices[k], j)

\* the fallback reorders: a later candidate of higher score comes first, a candidate
\* without score is ranked as 0, and a candidate is left out
C15_Witness ==
  /\ ScoreFallbackTaken
  /\ Len(selected_indices) = 2 /\ Len(selection_pool) = 3
  /\ selected_indices[1] > selected_indices[2]
  /\ selection_pool[selected_indices[2] + 1].score = NoScore

\* C16: with AI topic selection disabled the selected topics are the first max_topics
\* items of the filtered pool in pool order, never more than max_topics.
C16_DeterministicSelection ==
  pc = "selected" /\ ~cfg.ai_topic_selection =>
    /\ all_selected_topics = Take(selection_pool, cfg.max_topics_to_select)
    /\ Len(all_selected_topics) <= cfg.max_topics_to_select

\* the summary.json files the history scan reads: those of hist and today's, inside the
\* retention window and parsable
HistoryFiles ==
  {f \in hist : (cfg.retain_days > 0 => f.name_is_date /\ f.age_days <= cfg.retain_days)
                /\ f.parses}
  \cup (IF "summary.json" \in DOMAIN files /\ files["summary.json"].pytype = "dict"
        THEN {[topics |-> Get(files["summary.json"].value, "topics", <<>>)]}
        ELSE {})

HistoryNonEmpty ==
  \E f \in HistoryFiles : \E i \in 1..Len(f.topics) :
    f.topics[i].url # "" \/ f.topics[i].title # <<>>

InHistory(topic) ==
  \E f \in HistoryFiles : \E i \in 1..Len(f.topics) :
    \/ f.topics[i].url # "" /\ f.topics[i].url = topic.url
    \/ f.topics[i].url = "" /\ f.topics[i].title # <<>> /\ f.topics[i].title = topic.title

\* C6: history filtering never empties the pool: in a run that does not take over today's
\* summary.json the pool handed to selection is non-empty whenever a headline was fetched;
\* with the filter on, the pool is the whole headline list when every headline is in the
\* history and the headlines not in the history, in their order, otherwise; with the
\* filter off it is the whole headline list.
C6_HistoryFilterKeepsPool ==
  pc = "filtered" /\ ~reuse_entire_run =>
    /\ all_headlines # <<>> => selection_pool # <<>>
    /\ cfg.skip_already_summarized =>
         /\ (\A i \in 1..Len(all_headlines) : InHistory(all_headlines[i]))
              => selection_pool = all_headlines
         /\ (\E i \in 1..Len(all_headlines) : ~InHistory(all_headlines[i]))
              => selection_pool = SelectSeq(all_headlines, LAMBDA t : ~InHistory(t))
    /\ ~cfg.skip_already_summarized => selection_pool = all_headlines

\* every fetched headline is in the history and the pool is the unfiltered list
C6_Witness ==
  /\ pc = "filtered" /\ cfg.skip_already_summarized
  /\ Len(all_headlines) >= 2
  /\ HistoryNonEmpty
  /\ \A i \in 1..Len(all_headlines) : InHistory(all_headlines[i])
  /\ selection_pool = all_headlines

\* TTS or the renderer has been invoked
VideoInvoked == video \in {"tts_raised", "render_raised", "rendered"}

\* topics.json and summary.json of the day directory hold what this run selected and
\* summarized
JsonArtifactsWritten ==
  /\ WrittenThisRun("topics.json") /\ files["topics.json"].value = all_selected_topics
  /\ WrittenThisRun("summary.json") /\ files["summary.json"].value = bundle.bundle

\* C11: in a run with video enabled topics.json and summary.json are completely written
\* in the state from which TTS and render_video are invoked, and they are still there in
\* every state after the invocation, a raising render_video included.
C11_JsonBeforeVideo ==
  [][/\ (~VideoInvoked /\ VideoInvoked') => JsonArtifactsWritten
     /\ VideoInvoked' => JsonArtifactsWritten']_vars

\* render_video has raised and both files are in the day directory
C11_Witness ==
  /\ pc = "raised" /\ video = "render_raised"
  /\ "captions.srt" \in DOMAIN files /\ "final.mp4" \notin DOMAIN files
  /\ JsonArtifactsWritten
  /\ Len(all_selected_topics) >= 2

\* the urls, and the titles of the entries without url, of the history
SeenUrls ==
  UNION {{f.topics[i].url : i \in {k \in 1..Len(f.topics) : f.topics[k].url # ""}} :
           f \in HistoryFiles}

SeenTitles ==
  UNION {{f.topics[i].title :
            i \in {k \in 1..Len(f.topics) : f.topics[k].url = "" /\ f.topics[k].title # <<>>}} :
           f \in HistoryFiles}

SeenByUrlElseTitle(topic) ==
  \/ topic.url # "" /\ topic.url \in SeenUrls
  \/ topic.url = "" /\ topic.title \in SeenTitles

\* C17: history filtering removes a headline exactly when its url was seen before, or it
\* has no url and its title was seen before; a headline with a new url stays whatever its
\* title (stated for the runs in which the filter leaves a headline).
C17_FilterByUrlElseTitle ==
  /\ pc = "filtered" /\ cfg.skip_already_summarized /\ ~reuse_entire_run
  /\ \E i \in 1..Len(all_headlines) : ~SeenByUrlElseTitle(all_headlines[i])
  => selection_pool = SelectSeq(all_headlines, LAMBDA t : ~SeenByUrlElseTitle(t))

\* the history scan of the run is over and no file of the day is rewritten yet
ScanDone ==
  /\ pc \in {"filtered", "selected"}
  /\ cfg.skip_already_summarized /\ ~reuse_entire_run

\* the summary.json files under the output root: those of earlier days and today's; a
\* file parses when it holds a JSON object
FilesUnderRoot ==
  {[name_is_date |-> f.name_is_date, age_days |-> f.age_days, parses |-> f.parses,
    topics |-> f.topics] : f \in hist}
  \cup (IF "summary.json" \in DOMAIN files
        THEN {[name_is_date |-> TRUE, age_days |-> 0,
               parses |-> files["summary.json"].pytype = "dict",
               topics |-> Get(files["summary.json"].value, "topics", <<>>)]}
        ELSE {})

\* the scan takes the entries of the file
EntriesTaken(f) ==
  \A i \in 1..Len(f.topics) :
    IF Get(f.topics[i], "url", "") # "" THEN f.topics[i].url \in already.urls
    ELSE Get(f.topics[i], "title", <<>>) # <<>> => f.topics[i].title \in already.titles

\* the file parses and lies in the window
ToBeTaken(f) ==
  f.parses /\ (cfg.retain_days = 0 \/ (f.name_is_date /\ f.age_days <= cfg.retain_days))

EntriesOf(F) ==
  UNION {{f.topics[i] : i \in 1..Len(f.topics)} : f \in F}

\* C18: the history scan takes the entries of a summary.json exactly when the file parses
\* and either the window is 0 or its parent directory is named by a date at most the
\* window old; the other files are skipped and do not stop the scan.
C18_HistoryScanWindow ==
  ScanDone =>
    /\ \A f \in FilesUnderRoot : ToBeTaken(f) => EntriesTaken(f)
    /\ \A u \in already.urls :
         \E e \in EntriesOf({f \in FilesUnderRoot : ToBeTaken(f)}) : Get(e, "url", "") = u
    /\ \A t \in already.titles :
         \E e \in EntriesOf({f \in FilesUnderRoot : ToBeTaken(f)}) :
           Get(e, "url", "") = "" /\ Get(e, "title", <<>>) = t

\* with window 0 the entries of an old directory and of `latest` are taken although a
\* file between them is malformed
C18_Witness ==
  /\ ScanDone /\ cfg.retain_days = 0
  /\ \E f \in hist : ~f.parses
  /\ \E f \in hist : ~f.name_is_date /\ f.parses /\ f.topics # <<>> /\ EntriesTaken(f)
  /\ \E f \in hist : f.name_is_date /\ f.age_days > retain_days /\ f.topics # <<>>
  /\ already.urls # {}

ElemsOf(q) == {q[i] : i \in 1..Len(q)}

\* the calls of fetch_comments_for_topic and fetch_article_content made by the step taken
NewEnrichCalls == {enrich_log'[k] : k \in (Len(enrich_log) + 1)..Len(enrich_log')}

DummyVias == {"local_dummy", "request_failed", "parse_fallback"}

\* after the enrichment loops: a failed fetch left its topic without comments or content,
\* every other topic holds what its site returned, and topics.json lists them all
EnrichedDespiteFailures ==
  enrich_log # <<>> =>
    LET n == Len(all_selected_topics) IN
    /\ Len(enrich_log) = 2 * n
    /\ \A i \in 1..n :
         LET topic == all_selected_topics[i]
             comments_call == enrich_log[i]
             content_call == enrich_log[n + i]
         IN /\ comments_call.kind = "comments" /\ content_call.kind = "content"
            /\ topic.title = comments_call.topic.title
            /\ topic.comments = IF comments_call.failed THEN <<>>
                                ELSE fetch_comments_for_topic(comments_call.topic, TRUE)
            /\ topic.content = IF content_call.failed THEN <<>>
                               ELSE fetch_article_content(content_call.topic.url, TRUE)
    /\ "topics.json" \in DOMAIN files /\ files["topics.json"].value = all_selected_topics

\* the enrichment step raises nothing, and the summarize call that follows it is handed
\* every selected topic
SummarizedDespiteFailures ==
  /\ enrich_log' # enrich_log => pc' = "topics_written" /\ raised' = "none"
  /\ (/\ pc = "topics_written" /\ bundle.status = "none"
      /\ bundle'.status = "returned" /\ bundle'.via \in DummyVias) =>
        bundle'.bundle = _dummy(all_selected_topics, FALSE)

-----------------------------------------------------------------------------
(* main.py lines 392-403 with utils.py: the `latest` copy and the retention *)

HoursPerDay == 24

\* a child of the output root: whether its name parses as %Y-%m-%d, the hours since the
\* midnight of that date, the hours since its modification, and for a directory of
\* artifacts which day's files it holds and whether all of them
Child(name, name_is_date, date_age, mtime_age, is_dir, content) ==
  [name |-> name, name_is_date |-> name_is_date, date_age |-> date_age,
   mtime_age |-> mtime_age, is_dir |-> is_dir, content |-> content]

\* the day directory of the run
day_dir == Child("today", TRUE, 1, 0, TRUE, "today")

\* the children a run can find next to the day directory
Dir2020 == Child("2020-01-01", TRUE, retain_days * HoursPerDay + 1, 0, TRUE, "other")
DirEdge == Child("edge-date", TRUE, retain_days * HoursPerDay, retain_days * HoursPerDay + 1,
                 TRUE, "other")
DirAssets == Child("assets", FALSE, 0, retain_days * HoursPerDay + 1, TRUE, "other")
DirCache == Child("cache", FALSE, 0, 1, TRUE, "other")
FileDated == Child("2019-01-01", TRUE, retain_days * HoursPerDay + 1,
                   retain_days * HoursPerDay + 1, FALSE, "other")
LatestOld == Child("latest", FALSE, 0, retain_days * HoursPerDay + 1, TRUE, "previous")
LatestNew == Child("latest", FALSE, 0, 1, TRUE, "previous")

OutputRoots ==
  {{day_dir} \cup others \cup l :
     others \in SUBSET {Dir2020, DirEdge, DirAssets, DirCache, FileDated},
     l \in {{}, {LatestOld}, {LatestNew}}}

OInit ==
  /\ o_pc = "artifacts_written"
  /\ o_cfg \in [write_latest : BOOLEAN, retain_days : {0, retain_days}]
  /\ out_root \in OutputRoots
  /\ o_raised = "none"
  /\ SIdle /\ TIdle /\ RIdle /\ EIdle /\ FIdle /\ VIdle

Named(root, name) == {c \in root : c.name = name}

\* main.py line 392 with write_latest off
SkipLatest ==
  /\ o_pc = "artifacts_written" /\ ~o_cfg.write_latest
  /\ o_pc' = "latest_done"
  /\ UNCHANGED <<o_cfg, out_root, o_raised, svars, tvars, rvars, evars, fvars, vvars>>

\* utils.py lines 22-23: dst exists and shutil.rmtree(dst) removes it
RemoveLatest ==
  /\ o_pc = "artifacts_written" /\ o_cfg.write_latest
  /\ Named(out_root, "latest") # {}
  /\ out_root' = out_root \ Named(out_root, "latest")
  /\ o_pc' = "latest_removed"
  /\ UNCHANGED <<o_cfg, o_raised, svars, tvars, rvars, evars, fvars, vvars>>

\* utils.py line 24: shutil.copytree creates dst and copies the files one after another;
\* the state in which some of them are copied
CopyStarts ==
  /\ o_cfg.write_latest
  /\ \/ o_pc = "latest_removed"
     \/ o_pc = "artifacts_written" /\ Named(out_root, "latest") = {}
  /\ out_root' = out_root \cup {Child("latest", FALSE, 0, 0, TRUE, "partial")}
  /\ o_pc' = "copying"
  /\ UNCHANGED <<o_cfg, o_raised, svars, tvars, rvars, evars, fvars, vvars>>

\* utils.py line 24: the last file is copied
CopyCompletes ==
  /\ o_pc = "copying"
  /\ out_root' = (out_root \ Named(out_root, "latest"))
                 \cup {Child("latest", FALSE, 0, 0, TRUE, day_dir.content)}
  /\ o_pc' = "latest_done"
  /\ UNCHANGED <<o_cfg, o_raised, svars, tvars, rvars, evars, fvars, vvars>>

\* utils.py line 24: a copy fails (disk full, a file vanishes); shutil.Error leaves
\* copytree_overwrite and run_once, which has no handler at line 394
CopyFails ==
  /\ o_pc = "copying"
  /\ o_pc' = "raised" /\ o_raised' = "shutil.Error"
  /\ UNCHANGED <<o_cfg, out_root, svars, tvars, rvars, evars, fvars, vvars>>

\* utils.py lines 53-72: whether the loop removes the child
Expired(child, retain, keep_latest) ==
  /\ child.is_dir
  /\ ~(keep_latest /\ child.name = "latest")
  /\ IF child.name_is_date THEN child.date_age > retain * HoursPerDay
     ELSE child.mtime_age > retain * HoursPerDay

\* utils.py lines 39-77: the children left; `removable` are those rmtree can remove
cleanup_old_outputs(root, retain, keep_latest, removable) ==
  {c \in root : ~(Expired(c, retain, keep_latest) /\ c \in removable)}

\* main.py lines 397-403
Cleanup ==
  /\ o_pc = "latest_done"
  /\ \E removable \in {out_root, {}} :
       out_root' = IF o_cfg.retain_days > 0
                   THEN cleanup_old_outputs(out_root, o_cfg.retain_days, TRUE, removable)
                   ELSE out_root
  /\ o_pc' = "done"
  /\ UNCHANGED <<o_cfg, o_raised, svars, tvars, rvars, evars, fvars, vvars>>

ONext ==
  \/ SkipLatest
  \/ RemoveLatest
  \/ CopyStarts
  \/ CopyCompletes
  \/ CopyFails
  \/ Cleanup

SpecOutput == OInit /\ [][ONext]_vars

-----------------------------------------------------------------------------
(* Claims about the output root *)

Removed == out_root \ out_root'

\* C12: the retention removes a directory only if its name parses as a date older than
\* retain_days; `latest` and every directory whose name parses as no date stay, whatever
\* their modification time.
C12_CleanupByNameOnly ==
  [][o_pc = "latest_done" =>
       /\ \A c \in Removed : c.name_is_date /\ c.date_age > o_cfg.retain_days * HoursPerDay
       /\ \A c \in out_root : (c.name = "latest" \/ ~c.name_is_date) => c \in out_root']_vars

LatestComplete ==
  \E c \in Named(out_root, "latest") : c.content \in {"previous", day_dir.content}

\* C13: once `latest` holds a complete copy it holds a complete copy (the previous one or
\* the day directory's) in every later state, a failed copy included.
C13_LatestAtomic == [][LatestComplete => LatestComplete']_vars

-----------------------------------------------------------------------------
(* The entrypoints: agent/agent_cli.py, agent/agent_server.py, scheduler.py *)

\* two invocations of the CLI, two POST /run requests of one server, one scheduler
CliRuns == {"cli1", "cli2"}
HttpRuns == {"post1", "post2"}
SchedulerRuns == {"scheduler"}
Runners == CliRuns \cup HttpRuns \cup SchedulerRuns

\* --lockfile: the default of agent_cli.py line 25 or a path given on the command line
Lockfiles == {"/tmp/videoagent.lock", "other.lock"}

EInit ==
  /\ e_pc = [p \in Runners |-> "idle"]
  /\ e_lockfile \in [CliRuns -> Lockfiles]
  /\ locks = [f \in Lockfiles |-> "free"]
  /\ SIdle /\ TIdle /\ RIdle /\ OIdle /\ FIdle /\ VIdle

\* agent_cli.py lines 12-19 and 30: flock(LOCK_EX | LOCK_NB) succeeds
acquire_lock(p) ==
  /\ p \in CliRuns /\ e_pc[p] = "idle"
  /\ locks[e_lockfile[p]] = "free"
  /\ locks' = [locks EXCEPT ![e_lockfile[p]] = p]
  /\ e_pc' = [e_pc EXCEPT ![p] = "locked"]
  /\ UNCHANGED <<e_lockfile, svars, tvars, rvars, ovars, fvars, vvars>>

\* agent_cli.py lines 16-18: BlockingIOError, sys.exit(2)
lock_busy(p) ==
  /\ p \in CliRuns /\ e_pc[p] = "idle"
  /\ locks[e_lockfile[p]] # "free"
  /\ e_pc' = [e_pc EXCEPT ![p] = "exited"]
  /\ UNCHANGED <<e_lockfile, locks, svars, tvars, rvars, ovars, fvars, vvars>>

\* agent_cli.py line 34: run_once is entered
cli_run_once(p) ==
  /\ p \in CliRuns /\ e_pc[p] = "locked"
  /\ e_pc' = [e_pc EXCEPT ![p] = "running"]
  /\ UNCHANGED <<e_lockfile, locks, svars, tvars, rvars, ovars, fvars, vvars>>

\* agent_cli.py lines 35-47: run_once returns or raises, the lock is released
cli_finish(p) ==
  /\ p \in CliRuns /\ e_pc[p] = "running"
  /\ locks' = [locks EXCEPT ![e_lockfile[p]] = "free"]
  /\ e_pc' = [e_pc EXCEPT ![p] = "done"]
  /\ UNCHANGED <<e_lockfile, svars, tvars, rvars, ovars, fvars, vvars>>

\* agent_server.py lines 19-24 and 34: the key of the request is refused
unauthorized(p) ==
  /\ p \in HttpRuns /\ e_pc[p] = "idle"
  /\ e_pc' = [e_pc EXCEPT ![p] = "refused"]
  /\ UNCHANGED <<e_lockfile, locks, svars, tvars, rvars, ovars, fvars, vvars>>

\* agent_server.py lines 33-37: asyncio.to_thread(run_once, ...) starts run_once in a
\* worker thread; the event loop goes on serving requests
run(p) ==
  /\ p \in HttpRuns /\ e_pc[p] = "idle"
  /\ e_pc' = [e_pc EXCEPT ![p] = "running"]
  /\ UNCHANGED <<e_lockfile, locks, svars, tvars, rvars, ovars, fvars, vvars>>

\* agent_server.py lines 38-40: the answer of the request
run_returns(p) ==
  /\ p \in HttpRuns /\ e_pc[p] = "running"
  /\ e_pc' = [e_pc EXCEPT ![p] = "done"]
  /\ UNCHANGED <<e_lockfile, locks, svars, tvars, rvars, ovars, fvars, vvars>>

\* scheduler.py lines 16-23, called from lines 81 and 89: a job is due
job(p) ==
  /\ p \in SchedulerRuns /\ e_pc[p] = "idle"
  /\ e_pc' = [e_pc EXCEPT ![p] = "running"]
  /\ UNCHANGED <<e_lockfile, locks, svars, tvars, rvars, ovars, fvars, vvars>>

\* scheduler.py lines 25-34 and 88-90: the job ends and the loop waits for the next one
job_ends(p) ==
  /\ p \in SchedulerRuns /\ e_pc[p] = "running"
  /\ e_pc' = [e_pc EXCEPT ![p] = "idle"]
  /\ UNCHANGED <<e_lockfile, locks, svars, tvars, rvars, ovars, fvars, vvars>>

ENext ==
  \E p \in Runners :
    \/ acquire_lock(p)
    \/ lock_busy(p)
    \/ cli_run_once(p)
    \/ cli_finish(p)
    \/ unauthorized(p)
    \/ run(p)
    \/ run_returns(p)
    \/ job(p)
    \/ job_ends(p)

SpecEntry == EInit /\ [][ENext]_vars

\* the runners inside run_once
Running == {p \in Runners : e_pc[p] = "running"}

\* C14: at most one run_once is in progress at any time, whichever entrypoints the runs
\* were requested through.
C14_SingleRun == Cardinality(Running) <= 1

\* the same for runs started by the CLI with one lockfile
C14_CliWithOneLockfile ==
  \A p, q \in Running \cap CliRuns : e_lockfile[p] = e_lockfile[q] => p = q

-----------------------------------------------------------------------------
(* multi_source_fetch.py: fetch_all_sources (lines 377-476) *)

MaxPosts == 3         \* items one request of a source returns

\* ChinaNewsCfg.top_n is Optional[int]: None is NoTopN
NoTopN == -1

\* what the requests of one source return, in the order the site lists them
PostScores == <<3, 7, 7, 0, 9>>
Posts(source) ==
  [k \in 1..Len(PostScores) |-> [title |-> k, score |-> PostScores[k], source |-> source]]

\* tweets carry their public metrics instead of a score
Tweets ==
  [k \in 1..Len(PostScores) |->
     [title |-> k, like_count |-> PostScores[k] % 2, retweet_count |-> PostScores[k] \div 2]]

\* a request fails (connection, HTTP status, malformed body), or lists no, one or MaxPosts
\* items
Answers(items) ==
  {[ok |-> FALSE, items |-> <<>>]}
  \cup {[ok |-> TRUE, items |-> Take(items, k)] : k \in {0, 1, MaxPosts}}

\* lines 42-84, 128-171 and 222-265: the topics of the response, [] from the except block
fetch_topics(answer) == IF answer.ok THEN answer.items ELSE <<>>

\* lines 280-320: [] without a bearer token, the tweets as topics, [] from the except block
fetch_tweets(bearer_token, answer) ==
  IF ~bearer_token \/ ~answer.ok THEN <<>>
  ELSE [k \in 1..Len(answer.items) |->
          [title |-> answer.items[k].title,
           score |-> answer.items[k].like_count + answer.items[k].retweet_count * 2,
           source |-> "Twitter"]]

\* topics.sort(key=lambda t: t.score or 0, reverse=True): a stable sort
sort_by_score(topics) ==
  LET n == Len(topics)
      rank(i) == Cardinality({j \in 1..n :
                   \/ score_or_0(topics[j]) > score_or_0(topics[i])
                   \/ score_or_0(topics[j]) = score_or_0(topics[i]) /\ j < i}) + 1
  IN [r \in 1..n |-> topics[CHOOSE i \in 1..n : rank(i) = r]]

\* topics[:n] for n None or n >= 0
Slice(topics, n) == IF n = NoTopN THEN topics ELSE Take(topics, n)

\* SourcesCfg.model_dump() (main.py line 63): every key is present, an unset top_n as None
SourcesCfgs ==
  [reddit : [enabled : BOOLEAN], hackernews : [enabled : BOOLEAN],
   twitter : [enabled : BOOLEAN, bearer_token : BOOLEAN],
   chinanews : [enabled : BOOLEAN, top_n : {NoTopN, 1, MaxPosts}],
   top_n_per_source : {1, 2}]

FInit ==
  /\ f_pc = "reddit"
  /\ f_cfg \in SourcesCfgs
  /\ f_cfg.twitter.enabled \/ ~f_cfg.twitter.bearer_token    \* read at line 439 only
  /\ f_cfg.chinanews.enabled \/ f_cfg.chinanews.top_n = NoTopN   \* read at line 471 only
  /\ f_fetched = EmptyDict
  /\ all_topics = EmptyDict
  /\ SIdle /\ TIdle /\ RIdle /\ OIdle /\ EIdle /\ VIdle

\* what a source's requests returned: whether every one failed, and the topics in fetch order
Fetched(answers, topics) ==
  [failed |-> \A k \in 1..Len(answers) : ~answers[k].ok, topics |-> topics]

\* a source without topics is left out of the result
StoreNonEmpty(d, name, topics) == IF topics = <<>> THEN d ELSE Put(d, name, topics)

\* all_topics[name] = topics
Store(d, name, topics) == Put(d, name, topics)

\* lines 391-413: two subreddits
FetchReddit ==
  /\ f_pc = "reddit"
  /\ IF f_cfg.reddit.enabled
     THEN \E a1, a2 \in Answers(Posts("Reddit")) :
            LET reddit_topics == fetch_topics(a1) \o fetch_topics(a2) IN
            /\ all_topics' = Store(all_topics, "reddit",
                                   Slice(sort_by_score(reddit_topics), f_cfg.top_n_per_source))
            /\ f_fetched' = Put(f_fetched, "reddit", Fetched(<<a1, a2>>, reddit_topics))
     ELSE UNCHANGED <<all_topics, f_fetched>>
  /\ f_pc' = "hackernews"
  /\ UNCHANGED <<f_cfg, svars, tvars, rvars, ovars, evars, vvars>>

\* lines 415-429
FetchHackerNews ==
  /\ f_pc = "hackernews"
  /\ IF f_cfg.hackernews.enabled
     THEN \E a \in Answers(Posts("Hacker News")) :
            LET hn_topics == fetch_topics(a) IN
            /\ all_topics' = Store(all_topics, "hackernews",
                                   Slice(sort_by_score(hn_topics), f_cfg.top_n_per_source))
            /\ f_fetched' = Put(f_fetched, "hackernews", Fetched(<<a>>, hn_topics))
     ELSE UNCHANGED <<all_topics, f_fetched>>
  /\ f_pc' = "twitter"
  /\ UNCHANGED <<f_cfg, svars, tvars, rvars, ovars, evars, vvars>>

\* lines 431-452: one search query
FetchTwitter ==
  /\ f_pc = "twitter"
  /\ IF f_cfg.twitter.enabled
     THEN \E a \in IF f_cfg.twitter.bearer_token THEN Answers(Tweets)
                   ELSE {[ok |-> FALSE, items |-> <<>>]} :
            LET twitter_topics == fetch_tweets(f_cfg.twitter.bearer_token, a) IN
            /\ all_topics' = Store(all_topics, "twitter",
                                   Slice(sort_by_score(twitter_topics), f_cfg.top_n_per_source))
            /\ f_fetched' = Put(f_fetched, "twitter", Fetched(<<a>>, twitter_topics))
     ELSE UNCHANGED <<all_topics, f_fetched>>
  /\ f_pc' = "chinanews"
  /\ UNCHANGED <<f_cfg, svars, tvars, rvars, ovars, evars, vvars>>

\* lines 454-476: one feed; the list is not sorted
FetchChinaNews ==
  /\ f_pc = "chinanews"
  /\ IF f_cfg.chinanews.enabled
     THEN \E a \in Answers(Posts("China News")) :
            LET chinanews_topics == fetch_topics(a)
                \* chinanews_cfg.get('top_n', top_n): the key is always present
                chinanews_top_n == f_cfg.chinanews.top_n
            IN /\ all_topics' = Store(all_topics, "chinanews",
                                      Slice(chinanews_topics, chinanews_top_n))
               /\ f_fetched' = Put(f_fetched, "chinanews", Fetched(<<a>>, chinanews_topics))
     ELSE UNCHANGED <<all_topics, f_fetched>>
  /\ f_pc' = "returned"
  /\ UNCHANGED <<f_cfg, svars, tvars, rvars, ovars, evars, vvars>>

FNext == FetchReddit \/ FetchHackerNews \/ FetchTwitter \/ FetchChinaNews

SpecFetch == FInit /\ [][FNext]_vars

-----------------------------------------------------------------------------
(* Claims about fetch_all_sources *)

SourceNames == {"reddit", "hackernews", "twitter", "chinanews"}

EnabledSources == {name \in SourceNames : f_cfg[name].enabled}

\* C25: a source whose fetch fails contributes an empty list under its name in the result
\* of fetch_all_sources, the call still returns, and the lists of all other enabled sources
\* are returned as fetched.
C25_SourceFailureIsolated ==
  f_pc = "returned" =>
    /\ DOMAIN all_topics = EnabledSources
    /\ \A name \in EnabledSources :
         /\ f_fetched[name].failed => all_topics[name] = <<>>
         /\ ElemsOf(all_topics[name]) \subseteq ElemsOf(f_fetched[name].topics)
         /\ f_fetched[name].topics # <<>> => all_topics[name] # <<>>

\* Reddit failed on both subreddits while Hacker News and China News delivered
C25_Witness ==
  /\ f_pc = "returned"
  /\ EnabledSources = {"reddit", "hackernews", "chinanews"}
  /\ f_fetched["reddit"].failed /\ all_topics["reddit"] = <<>>
  /\ Len(all_topics["hackernews"]) = f_cfg.top_n_per_source
  /\ all_topics["chinanews"] # <<>>

\* the number of entries the configuration allows a source
AllowedEntries(name) ==
  IF name = "chinanews" /\ f_cfg.chinanews.top_n # NoTopN THEN f_cfg.chinanews.top_n
  ELSE f_cfg.top_n_per_source

Descending(topics) ==
  \A i, j \in 1..Len(topics) : i < j => topics[i].score >= topics[j].score

\* the lists of `names` are truncated, the scored ones sorted and the feed's in fetch order
TruncatedAndSorted(names) ==
  \A name \in names \cap DOMAIN all_topics :
    /\ Len(all_topics[name]) <= AllowedEntries(name)
    /\ name # "chinanews" => Descending(all_topics[name])
    /\ name = "chinanews" =>
         all_topics[name] = Take(f_fetched[name].topics, Len(all_topics[name]))

\* C26: every list returned by fetch_all_sources has at most top_n_per_source entries, or at
\* most the source-specific override when one is configured (top_n_per_source applies when
\* the override is unset), and the lists of sources with native scores are in descending
\* score order while RSS topics keep fetch order.
C26_TruncatedAndSorted == f_pc = "returned" => TruncatedAndSorted(SourceNames)

\* the same statement for the scored sources, and for the feed when its override is set
C26_ScoredOrOverride ==
  f_pc = "returned" =>
    /\ TruncatedAndSorted(SourceNames \ {"chinanews"})
    /\ f_cfg.chinanews.top_n # NoTopN => TruncatedAndSorted({"chinanews"})

-----------------------------------------------------------------------------
(* main.py lines 353-383: the video of the day (tts.py, captions.py, render.py) *)

MaxCaptions == 2      \* captions of the bundle handed to write_srt

CapShown == [start_s |-> 0, end_s |-> 8, text |-> <<"1.", "Alpha", "...">>]
CapEmpty == [start_s |-> 8, end_s |-> 16, text |-> <<>>]
CapBlank == [start_s |-> 16, end_s |-> 24, text |-> <<"W">>]
CapLate == [start_s |-> 3599, end_s |-> 3661, text |-> <<"W", "zhCap">>]
CapOpenEnd == [start_s |-> 59, text |-> <<"2.", "Gamma", "...">>]

VideoCaptions == {CapShown, CapEmpty, CapBlank, CapLate, CapOpenEnd}

\* a configured path: unset, naming no file, or naming a file
Paths == {"", "missing", "found"}

\* a final.mp4 an earlier run of the day left in the day directory
StaleVideo == [f \in {"final.mp4"} |-> File("video", <<>>, FALSE)]

VInit ==
  /\ v_pc = "synthesize"
  /\ v_cfg \in [backend : {"none", "edge_tts", "pyttsx3"}, audio_format : {"mp3", "wav"},
                ffmpeg : BOOLEAN, background_image : Paths, background_music : Paths]
  /\ v_captions \in SeqsUpTo(VideoCaptions, MaxCaptions)
  /\ v_dir \in {EmptyDict, StaleVideo}
  /\ v_spawned = <<>>
  /\ v_out = "none"
  /\ SIdle /\ TIdle /\ RIdle /\ OIdle /\ EIdle /\ FIdle

\* tts.py lines 38-54: the speech service fails, or pyttsx3 is asked for another format
tts_raises(c, service_up) ==
  \/ c.backend = "edge_tts" /\ ~service_up
  \/ c.backend = "pyttsx3" /\ c.audio_format # "wav"

\* main.py line 359 with tts.py lines 28-54; backend none writes an empty placeholder
Synthesize ==
  /\ v_pc = "synthesize"
  /\ \E service_up \in BOOLEAN :
       IF tts_raises(v_cfg, service_up)
       THEN /\ v_pc' = "raised" /\ v_out' = "tts failed"
            /\ UNCHANGED v_dir
       ELSE /\ v_pc' = "write_srt"
            /\ v_dir' = synthesize(v_dir, IF v_cfg.backend = "none" THEN <<>>
                                          ELSE <<"speech">>)
            /\ UNCHANGED v_out
  /\ UNCHANGED <<v_cfg, v_captions, v_spawned, svars, tvars, rvars, ovars, evars, fvars>>

\* main.py line 366 with captions.py lines 17-32
WriteSrt ==
  /\ v_pc = "write_srt"
  /\ v_dir' = write_srt(v_dir, v_captions)
  /\ v_pc' = "render"
  /\ UNCHANGED <<v_cfg, v_captions, v_spawned, v_out, svars, tvars, rvars, ovars, evars, fvars>>

\* the file is taken to be there
PathAssumed(path) == TRUE

\* Path(...).exists()
PathExists(path) == path = "found"

\* render.py lines 16-108: the error raised and the subprocesses spawned
render_call(c, returncode) ==
  IF ~c.ffmpeg
  THEN [raised |-> "ffmpeg not found", spawned |-> <<>>]
  ELSE IF c.background_image # "" /\ ~PathExists(c.background_image)
  THEN [raised |-> "background_image not found", spawned |-> <<>>]
  ELSE IF c.background_music # "" /\ ~PathExists(c.background_music)
  THEN [raised |-> "background_music not found", spawned |-> <<>>]
  ELSE [raised |-> IF returncode # 0 THEN "FFmpeg failed" ELSE "none",
        spawned |-> <<"ffmpeg">>]

\* main.py lines 374-383 with render.py lines 16-108
RenderVideoCall ==
  /\ v_pc = "render"
  /\ \E returncode \in {0, 1} :
       LET r == render_call(v_cfg, returncode) IN
       /\ v_spawned' = v_spawned \o r.spawned
       /\ v_dir' = IF r.raised = "none" THEN render_video(v_dir) ELSE v_dir
       /\ v_out' = IF r.raised = "none" THEN "final.mp4" ELSE r.raised
       /\ v_pc' = IF r.raised = "none" THEN "done" ELSE "raised"
  /\ UNCHANGED <<v_cfg, v_captions, svars, tvars, rvars, ovars, evars, fvars>>

VNext == Synthesize \/ WriteSrt \/ RenderVideoCall

SpecVideo == VInit /\ [][VNext]_vars

-----------------------------------------------------------------------------
(* Claims about the video of the day *)

MissingAsset ==
  v_cfg.background_image = "missing" \/ v_cfg.background_music = "missing"

\* C27: when the configured background image (or background music) path does not exist,
\* render_video raises before any renderer subprocess is spawned and no final.mp4 is
\* produced or reported.
C27_MissingAssetFailsFast ==
  v_pc # "idle" /\ MissingAsset =>
    /\ v_spawned = <<>>
    /\ v_pc # "done" /\ v_out # "final.mp4"
    /\ "final.mp4" \in DOMAIN v_dir => ~v_dir["final.mp4"].run
    /\ v_pc = "raised" =>
         v_out \in {"tts failed", "ffmpeg not found", "background_image not found",
                    "background_music not found"}

\* render_video was called with ffmpeg installed and raised for the missing image, and
\* in another run for the missing music
C27_Witness ==
  /\ v_pc = "raised" /\ v_cfg.ffmpeg /\ "captions.srt" \in DOMAIN v_dir
  /\ v_out = "background_image not found" /\ v_cfg.background_music = "found"

\* the captions that write_srt does not leave out
ShownCaptions ==
  SelectIdx([i \in 1..Len(v_captions) |-> strip(Get(v_captions[i], "text", <<>>)) # <<>>],
            1, Len(v_captions))

WellFormedTime(t) ==
  /\ 0 <= t.ms /\ t.ms < MsPerSecond
  /\ 0 <= t.ss /\ t.ss < SecondsPerMinute
  /\ 0 <= t.mm /\ t.mm < SecondsPerMinute
  /\ 0 <= t.hh

\* the cues are the captions with text, in caption order, with well-formed times
CuesInOrder(cues) ==
  /\ Len(cues) = Len(ShownCaptions)
  /\ \A k \in 1..Len(cues) :
       /\ cues[k].text = strip(v_captions[ShownCaptions[k]].text)
       /\ WellFormedTime(cues[k].start) /\ WellFormedTime(cues[k].end)

\* C28: the subtitle file write_srt emits numbers its cues consecutively 1, 2, ..., k in
\* caption order for every caption list, including lists in which some captions have empty
\* text and are left out, and each cue's times are rendered as HH:MM:SS,mmm with
\* 0 <= mmm < 1000, SS < 60 and MM < 60.
C28_SrtNumbering ==
  "captions.srt" \in DOMAIN v_dir =>
    LET cues == v_dir["captions.srt"].value IN
    /\ CuesInOrder(cues)
    /\ \A k \in 1..Len(cues) : cues[k].index = k

\* the same statement without the numbering, and the numbering when no caption is left out
C28_OrderAndTimes ==
  "captions.srt" \in DOMAIN v_dir =>
    LET cues == v_dir["captions.srt"].value IN
    /\ CuesInOrder(cues)
    /\ Len(cues) = Len(v_captions) => \A k \in 1..Len(cues) : cues[k].index = k

-----------------------------------------------------------------------------
(* Claims about the bundle handed to translate_bundle *)

BundleFields == {"narration", "topics", "captions"}

-----------------------------------------------------------------------------
(* Claims about the reuse of today's summary.json *)

\* the requests to the LLM that select or summarize topics
AIRequests == {"select", "select_failed", "summarize"}

\* the run wrote summary.json with the bundle it found in the file
LoadedBundleWritten ==
  reuse_entire_run /\ pc = "topics_written" /\ pc' = "summary_written" =>
    /\ bundle' = bundle /\ bundle.via = "reused"
    /\ files'["summary.json"].run
    /\ files'["summary.json"].value = files["summary.json"].value

\* C30: when skip_already_summarized is false and today's summary.json exists and parses,
\* the run reuses that bundle without re-calling the AI: summarize is not invoked, no LLM
\* request for topic selection or summarization is made, and the summary.json written at
\* the end of the run holds the same bundle that was loaded.
C30_ReuseWithoutAI ==
  /\ [](reuse_entire_run => \A k \in 1..Len(llm_calls) : llm_calls[k] \notin AIRequests)
  /\ [][LoadedBundleWritten]_vars

\* the same statement without the selection request
C30_ReuseWithoutSummarize ==
  /\ [](reuse_entire_run => \A k \in 1..Len(llm_calls) : llm_calls[k] # "summarize")
  /\ [][LoadedBundleWritten]_vars

====
